---- MODULE Spec2Model ----
(***************************************************************************)
(* One round of blackjack as played by the engine of src/blackjack.ts      *)
(* (the ruleset-aware variant, lines 788-1346) under the driver loops of   *)
(* src/index.ts.                                                           *)
(*                                                                         *)
(* A card is a record [faceValue, faceDown]; the suit is never read by the *)
(* engine and is left out.  Array indices keep the source's 0-based        *)
(* values; a TLA+ sequence is read at index + 1.                           *)
(*                                                                         *)
(* A function that can throw returns [threw |-> "none", value |-> v] or    *)
(* [threw |-> <error>, value |-> <<>>].                                    *)
(***************************************************************************)
EXTENDS Integers, Sequences, FiniteSets, TLC

\* game:  the driver's BlackJackState value, replaced by every call of nextState
\*        [shoe, playerHands, actionableHandIndex, dealerHand, state, startingBet, bets]
\* rules: the module-level ruleset, never written during a round
\* history: what the round has done so far (an observer, not read by the engine):
\*        aceSplits, the number of Split actions applied to a pair of aces
VARIABLES game, rules, history

vars == <<game, rules, history>>

(***************************************************************************)
(* Bounds of the model.                                                    *)
(***************************************************************************)
\* Number of cards at the front of the shoe that the model follows.
ShoeLen == 6

\* Face values that occur in the modelled part of the shoe.
ShoeFaceValues == {"A", "5", "10", "K"}

\* Longest hand that handValue is applied to on its own.
MaxHandLen == 3

(***************************************************************************)
(* Types                                                                   *)
(***************************************************************************)
FaceValue == {"A", "2", "3", "4", "5", "6", "7", "8", "9", "10", "J", "Q", "K"}

PlayerAction == {"hit", "stand", "double", "split"}

\* The stake the drivers pass to initState.
flatBet == 100

\* What a destructuring read past the end of an array yields.
undefinedCard == [faceValue |-> "undefined", faceDown |-> FALSE]

Ok(v) == [threw |-> "none", value |-> v]

Throw(e) == [threw |-> e, value |-> <<>>]

\* The rulesets the rounds are played under: the source's default first.
\* blackjackPayout is a fraction: 3/2 is [num |-> 3, den |-> 2].
RuleSets ==
  { [dealerStandsOnAll17 |-> TRUE, dealerPeeks |-> TRUE, maxHandsAfterSplit |-> 4,
     splitAces |-> 3, doubleOn |-> "any", doubleAfterSplit |-> TRUE,
     aceAndTenCountsAsBlackjack |-> TRUE, blackjackPayout |-> [num |-> 3, den |-> 2]],
    [dealerStandsOnAll17 |-> FALSE, dealerPeeks |-> FALSE, maxHandsAfterSplit |-> 3,
     splitAces |-> 1, doubleOn |-> "hard-9-11", doubleAfterSplit |-> FALSE,
     aceAndTenCountsAsBlackjack |-> FALSE, blackjackPayout |-> [num |-> 6, den |-> 5]],
    [dealerStandsOnAll17 |-> TRUE, dealerPeeks |-> FALSE, maxHandsAfterSplit |-> 2,
     splitAces |-> 2, doubleOn |-> "hard-10-11", doubleAfterSplit |-> TRUE,
     aceAndTenCountsAsBlackjack |-> TRUE, blackjackPayout |-> [num |-> 3, den |-> 2]],
    [dealerStandsOnAll17 |-> FALSE, dealerPeeks |-> TRUE, maxHandsAfterSplit |-> 1,
     splitAces |-> 0, doubleOn |-> "any", doubleAfterSplit |-> FALSE,
     aceAndTenCountsAsBlackjack |-> FALSE, blackjackPayout |-> [num |-> 6, den |-> 5]] }

(***************************************************************************)
(* Card and hand valuation                                                 *)
(***************************************************************************)
cardValue(card, withAceAs11) ==
  IF card.faceDown THEN 0
  ELSE CASE card.faceValue = "A" -> (IF withAceAs11 THEN 11 ELSE 1)
         [] card.faceValue = "2" -> 2
         [] card.faceValue = "3" -> 3
         [] card.faceValue = "4" -> 4
         [] card.faceValue = "5" -> 5
         [] card.faceValue = "6" -> 6
         [] card.faceValue = "7" -> 7
         [] card.faceValue = "8" -> 8
         [] card.faceValue = "9" -> 9
         [] card.faceValue \in {"10", "J", "Q", "K"} -> 10
         [] OTHER -> 0

\* hand.filter(pred)
RECURSIVE filterFaceUp(_)
filterFaceUp(hand) ==
  IF hand = <<>> THEN <<>>
  ELSE IF Head(hand).faceDown THEN filterFaceUp(Tail(hand))
       ELSE <<Head(hand)>> \o filterFaceUp(Tail(hand))

\* sum(hand.map(cardValue))
RECURSIVE sumValues(_)
sumValues(hand) ==
  IF hand = <<>> THEN 0 ELSE cardValue(Head(hand), FALSE) + sumValues(Tail(hand))

\* The three shapes of a hand value: number | 'blackjack' | {soft: {low, high}}.
Number(n) == [kind |-> "number", low |-> n, high |-> n]

Soft(l, h) == [kind |-> "soft", low |-> l, high |-> h]

Blackjack == [kind |-> "blackjack", low |-> 0, high |-> 0]

\* Variant: a natural is recognised only with the ace as the first card.
handValue_aceFirst(_hand) ==
  LET hand == filterFaceUp(_hand)
      card1 == hand[1].faceValue
      card2 == hand[2].faceValue
      natural ==
        /\ Len(hand) = 2
        /\ \/ rules.aceAndTenCountsAsBlackjack /\ card1 = "A" /\ card2 = "10"
           \/ card1 = "A" /\ card2 = "J"
           \/ card1 = "A" /\ card2 = "Q"
           \/ card1 = "A" /\ card2 = "K"
      low == sumValues(hand)
      high == low + 10
  IN IF natural THEN Blackjack
     ELSE IF (\E i \in 1..Len(hand) : hand[i].faceValue = "A") /\ low <= 11
          THEN IF high > 21 THEN Number(low)
               ELSE IF high = 21 THEN Number(21)
               ELSE Soft(low, high)
          ELSE Number(low)

\* Variant: a high side of 21 stays a soft total.
handValue_soft21(_hand) ==
  LET hand == filterFaceUp(_hand)
      card1 == hand[1].faceValue
      card2 == hand[2].faceValue
      natural ==
        /\ Len(hand) = 2
        /\ \/ rules.aceAndTenCountsAsBlackjack /\ card1 = "A" /\ card2 = "10"
           \/ card1 = "A" /\ card2 = "J"
           \/ card1 = "A" /\ card2 = "Q"
           \/ card1 = "A" /\ card2 = "K"
           \/ rules.aceAndTenCountsAsBlackjack /\ card1 = "10" /\ card2 = "A"
           \/ card1 = "J" /\ card2 = "A"
           \/ card1 = "Q" /\ card2 = "A"
           \/ card1 = "K" /\ card2 = "A"
      low == sumValues(hand)
      high == low + 10
  IN IF natural THEN Blackjack
     ELSE IF (\E i \in 1..Len(hand) : hand[i].faceValue = "A") /\ low <= 11
          THEN IF high > 21 THEN Number(low)
               ELSE Soft(low, high)
          ELSE Number(low)

\* Variant: face-down cards are not filtered out.
handValue_seesHoleCard(_hand) ==
  LET hand == _hand
      card1 == hand[1].faceValue
      card2 == hand[2].faceValue
      natural ==
        /\ Len(hand) = 2
        /\ \/ rules.aceAndTenCountsAsBlackjack /\ card1 = "A" /\ card2 = "10"
           \/ card1 = "A" /\ card2 = "J"
           \/ card1 = "A" /\ card2 = "Q"
           \/ card1 = "A" /\ card2 = "K"
           \/ rules.aceAndTenCountsAsBlackjack /\ card1 = "10" /\ card2 = "A"
           \/ card1 = "J" /\ card2 = "A"
           \/ card1 = "Q" /\ card2 = "A"
           \/ card1 = "K" /\ card2 = "A"
      low == sumValues(hand)
      high == low + 10
  IN IF natural THEN Blackjack
     ELSE IF (\E i \in 1..Len(hand) : hand[i].faceValue = "A") /\ low <= 11
          THEN IF high > 21 THEN Number(low)
               ELSE IF high = 21 THEN Number(21)
               ELSE Soft(low, high)
          ELSE Number(low)

handValue(_hand) ==
  LET hand == filterFaceUp(_hand)
      card1 == hand[1].faceValue
      card2 == hand[2].faceValue
      natural ==
        /\ Len(hand) = 2
        /\ \/ rules.aceAndTenCountsAsBlackjack /\ card1 = "A" /\ card2 = "10"
           \/ card1 = "A" /\ card2 = "J"
           \/ card1 = "A" /\ card2 = "Q"
           \/ card1 = "A" /\ card2 = "K"
           \/ rules.aceAndTenCountsAsBlackjack /\ card1 = "10" /\ card2 = "A"
           \/ card1 = "J" /\ card2 = "A"
           \/ card1 = "Q" /\ card2 = "A"
           \/ card1 = "K" /\ card2 = "A"
      low == sumValues(hand)
      high == low + 10
  IN IF natural THEN Blackjack
     ELSE IF (\E i \in 1..Len(hand) : hand[i].faceValue = "A") /\ low <= 11
          THEN IF high > 21 THEN Number(low)
               ELSE IF high = 21 THEN Number(21)
               ELSE Soft(low, high)
          ELSE Number(low)

bust(hand) ==
  LET value == handValue(hand) IN value.kind = "number" /\ value.low > 21

(***************************************************************************)
(* The transition function                                                 *)
(***************************************************************************)
\* assoc(index, value, list) with a 0-based index
assoc(index, value, list) == [list EXCEPT ![index + 1] = value]

\* Variant: falls back to the first hand when no later hand waits.
getNextActionableHandIndex_firstHand(g) ==
  LET found == {i \in 0..(Len(g.playerHands) - 1) :
                  i > g.actionableHandIndex /\ Len(g.playerHands[i + 1]) = 1}
  IN IF found # {} THEN CHOOSE i \in found : \A j \in found : i <= j
     ELSE 0

\* Variant: the index runs past the last hand when no later hand waits.
getNextActionableHandIndex_pastEnd(g) ==
  LET found == {i \in 0..(Len(g.playerHands) - 1) :
                  i > g.actionableHandIndex /\ Len(g.playerHands[i + 1]) = 1}
  IN IF found # {} THEN CHOOSE i \in found : \A j \in found : i <= j
     ELSE Len(g.playerHands)

\* playerHands.findIndex((hand, i) => i > actionableHandIndex && hand.length === 1)
getNextActionableHandIndex(g) ==
  LET found == {i \in 0..(Len(g.playerHands) - 1) :
                  i > g.actionableHandIndex /\ Len(g.playerHands[i + 1]) = 1}
  IN IF found # {} THEN CHOOSE i \in found : \A j \in found : i <= j
     ELSE g.actionableHandIndex

playerHandFinished(playerHand) ==
  LET playerHandValue == handValue(playerHand)
      isBust == playerHandValue.kind = "number" /\ playerHandValue.low > 21
      twentyOne == playerHandValue.kind = "number" /\ playerHandValue.low = 21
      softTwentyOne == playerHandValue.kind = "soft" /\ playerHandValue.high = 21
      blackjack == playerHandValue.kind = "blackjack"
  IN isBust \/ twentyOne \/ softTwentyOne \/ blackjack

\* Variant: no card is turned.
allFaceUp_unchanged(hand) == hand

\* dealerHand.map(assoc('faceDown', false))
allFaceUp(hand) == [i \in 1..Len(hand) |-> [hand[i] EXCEPT !.faceDown = FALSE]]

\* The model follows the first ShoeLen cards of the 416-card shoe: a draw past
\* them is outside the model.
OutOfCards == Throw("out-of-cards")

\* Variant: the third card of the opening deal goes to the dealer.
dealOpening_thirdToDealer(g) ==
  LET card == Head(g.shoe)
      rest == Tail(g.shoe)
      hand0 == g.playerHands[1]
  IN IF Len(hand0) = 0
       THEN Ok([g EXCEPT !.shoe = rest, !.playerHands = <<(<<card>>)>>])
     ELSE IF Len(hand0) = 1 /\ Len(g.dealerHand) = 0
       THEN Ok([g EXCEPT !.shoe = rest, !.dealerHand = <<card>>])
     ELSE IF Len(hand0) = 1 /\ Len(g.dealerHand) = 1
       THEN Ok([g EXCEPT !.shoe = rest,
                         !.dealerHand = Append(g.dealerHand, [card EXCEPT !.faceDown = TRUE])])
     ELSE IF Len(hand0) = 1 /\ Len(g.dealerHand) = 2
       THEN Ok([g EXCEPT !.shoe = rest, !.playerHands = <<Append(hand0, card)>>,
                         !.state = IF playerHandFinished(Append(hand0, card))
                                     THEN "dealer-turn" ELSE "player-turn"])
     ELSE Throw("UnreachableError")

\* Variant: the player is asked to act on every opening hand.
dealOpening_playerAlwaysActs(g) ==
  LET card == Head(g.shoe)
      rest == Tail(g.shoe)
      hand0 == g.playerHands[1]
  IN IF Len(hand0) = 0
       THEN Ok([g EXCEPT !.shoe = rest, !.playerHands = <<(<<card>>)>>])
     ELSE IF Len(hand0) = 1 /\ Len(g.dealerHand) = 0
       THEN Ok([g EXCEPT !.shoe = rest, !.dealerHand = <<card>>])
     ELSE IF Len(hand0) = 1 /\ Len(g.dealerHand) = 1
       THEN Ok([g EXCEPT !.shoe = rest, !.playerHands = <<Append(hand0, card)>>])
     ELSE IF Len(hand0) = 2 /\ Len(g.dealerHand) = 1
       THEN LET newDealerHand == Append(g.dealerHand, [card EXCEPT !.faceDown = TRUE])
            IN IF rules.dealerPeeks /\ handValue(allFaceUp(newDealerHand)).kind = "blackjack"
                 THEN Ok([g EXCEPT !.shoe = rest, !.dealerHand = allFaceUp(newDealerHand),
                                   !.state = "game-over"])
               ELSE Ok([g EXCEPT !.shoe = rest, !.dealerHand = newDealerHand,
                                 !.state = "player-turn"])
     ELSE Throw("UnreachableError")

\* state 'dealing', one player hand: the opening deal
dealOpening(g) ==
  LET card == Head(g.shoe)
      rest == Tail(g.shoe)
      hand0 == g.playerHands[1]
  IN IF Len(hand0) = 0
       THEN Ok([g EXCEPT !.shoe = rest, !.playerHands = <<(<<card>>)>>])
     ELSE IF Len(hand0) = 1 /\ Len(g.dealerHand) = 0
       THEN Ok([g EXCEPT !.shoe = rest, !.dealerHand = <<card>>])
     ELSE IF Len(hand0) = 1 /\ Len(g.dealerHand) = 1
       THEN Ok([g EXCEPT !.shoe = rest, !.playerHands = <<Append(hand0, card)>>])
     ELSE IF Len(hand0) = 2 /\ Len(g.dealerHand) = 1
       THEN LET newDealerHand == Append(g.dealerHand, [card EXCEPT !.faceDown = TRUE])
            IN IF rules.dealerPeeks /\ handValue(allFaceUp(newDealerHand)).kind = "blackjack"
                 THEN Ok([g EXCEPT !.shoe = rest, !.dealerHand = allFaceUp(newDealerHand),
                                   !.state = "game-over"])
               ELSE IF handValue(hand0) = Number(21) \/ handValue(hand0).kind = "blackjack"
                 THEN Ok([g EXCEPT !.shoe = rest, !.dealerHand = newDealerHand,
                                   !.state = "dealer-turn"])
               ELSE Ok([g EXCEPT !.shoe = rest, !.dealerHand = newDealerHand,
                                 !.state = "player-turn"])
     ELSE Throw("UnreachableError")

\* state 'dealing', more than one player hand: one card to the hand just split
dealAfterSplit(g) ==
  LET playerCard == Head(g.shoe)
      playerHand == Append(g.playerHands[g.actionableHandIndex + 1], playerCard)
      newPlayerHands == assoc(g.actionableHandIndex, playerHand, g.playerHands)
      newIndex == IF playerHandFinished(playerHand) THEN getNextActionableHandIndex(g)
                  ELSE g.actionableHandIndex
  IN Ok([g EXCEPT !.shoe = Tail(g.shoe), !.playerHands = newPlayerHands,
                  !.actionableHandIndex = newIndex, !.state = "player-turn"])

\* Variant: the dealing phase knows only the opening deal.
dealing_openingOnly(g) ==
  IF g.shoe = <<>> THEN OutOfCards
  ELSE IF Len(g.playerHands) = 1 THEN dealOpening(g)
  ELSE Throw("UnreachableError")

dealing(g) ==
  IF g.shoe = <<>> THEN OutOfCards
  ELSE IF Len(g.playerHands) = 1 THEN dealOpening(g)
  ELSE IF Len(g.playerHands) > 1 THEN dealAfterSplit(g)
  ELSE Throw("UnreachableError")

everyBust(hands) == \A i \in 1..Len(hands) : bust(hands[i])

\* Variant: a finished hand with another hand waiting goes back to dealing.
stateAfterHit_dealing(handFinished, moreHandsToPlay) ==
  IF ~handFinished /\ ~moreHandsToPlay THEN "player-turn"
  ELSE IF ~handFinished /\ moreHandsToPlay THEN "player-turn"
  ELSE IF handFinished /\ ~moreHandsToPlay THEN "dealer-turn"
  ELSE "dealing"

\* Variant: the player keeps the turn on a finished last hand.
stateAfterHit_keepsTurn(handFinished, moreHandsToPlay) == "player-turn"

\* match({ handFinished, moreHandsToPlay })
stateAfterHit(handFinished, moreHandsToPlay) ==
  IF ~handFinished /\ ~moreHandsToPlay THEN "player-turn"
  ELSE IF ~handFinished /\ moreHandsToPlay THEN "player-turn"
  ELSE IF handFinished /\ ~moreHandsToPlay THEN "dealer-turn"
  ELSE "player-turn"

\* Variant: the card dealt stays at the front of the shoe.
Hit_keepsShoe(g) ==
  LET playerCard == Head(g.shoe)
      playerHand == Append(g.playerHands[g.actionableHandIndex + 1], playerCard)
      newPlayerHands == assoc(g.actionableHandIndex, playerHand, g.playerHands)
      handFinished == playerHandFinished(playerHand)
      newIndex == IF handFinished THEN getNextActionableHandIndex(g) ELSE g.actionableHandIndex
      moreHandsToPlay == newIndex # g.actionableHandIndex
      newState == IF everyBust(newPlayerHands) THEN "game-over"
                  ELSE stateAfterHit(handFinished, moreHandsToPlay)
  IN IF g.shoe = <<>> THEN OutOfCards
     ELSE Ok([g EXCEPT !.playerHands = newPlayerHands,
                       !.actionableHandIndex = newIndex, !.state = newState])

\* Variant: a round whose hands are all bust still goes to the dealer.
Hit_noBustCheck(g) ==
  LET playerCard == Head(g.shoe)
      playerHand == Append(g.playerHands[g.actionableHandIndex + 1], playerCard)
      newPlayerHands == assoc(g.actionableHandIndex, playerHand, g.playerHands)
      handFinished == playerHandFinished(playerHand)
      newIndex == IF handFinished THEN getNextActionableHandIndex(g) ELSE g.actionableHandIndex
      moreHandsToPlay == newIndex # g.actionableHandIndex
      newState == stateAfterHit(handFinished, moreHandsToPlay)
  IN IF g.shoe = <<>> THEN OutOfCards
     ELSE Ok([g EXCEPT !.shoe = Tail(g.shoe), !.playerHands = newPlayerHands,
                       !.actionableHandIndex = newIndex, !.state = newState])

Hit(g) ==
  LET playerCard == Head(g.shoe)
      playerHand == Append(g.playerHands[g.actionableHandIndex + 1], playerCard)
      newPlayerHands == assoc(g.actionableHandIndex, playerHand, g.playerHands)
      handFinished == playerHandFinished(playerHand)
      newIndex == IF handFinished THEN getNextActionableHandIndex(g) ELSE g.actionableHandIndex
      moreHandsToPlay == newIndex # g.actionableHandIndex
      newState == IF everyBust(newPlayerHands) THEN "game-over"
                  ELSE stateAfterHit(handFinished, moreHandsToPlay)
  IN IF g.shoe = <<>> THEN OutOfCards
     ELSE Ok([g EXCEPT !.shoe = Tail(g.shoe), !.playerHands = newPlayerHands,
                       !.actionableHandIndex = newIndex, !.state = newState])

\* Variant: standing on the last hand ends the round without the dealer.
Stand_endsRound(g) ==
  LET newIndex == getNextActionableHandIndex(g)
      moreHandsToPlay == newIndex # g.actionableHandIndex
  IN IF moreHandsToPlay
       THEN Ok([g EXCEPT !.actionableHandIndex = newIndex, !.state = "player-turn"])
     ELSE Ok([g EXCEPT !.state = "game-over"])

Stand(g) ==
  LET newIndex == getNextActionableHandIndex(g)
      moreHandsToPlay == newIndex # g.actionableHandIndex
  IN IF moreHandsToPlay
       THEN Ok([g EXCEPT !.actionableHandIndex = newIndex, !.state = "player-turn"])
     ELSE Ok([g EXCEPT !.state = "dealer-turn"])

\* Variant: the doubled hand is finished only when its value finishes it.
Double_asHit(g) ==
  LET playerCard == Head(g.shoe)
      playerHand == Append(g.playerHands[g.actionableHandIndex + 1], playerCard)
      newPlayerHands == assoc(g.actionableHandIndex, playerHand, g.playerHands)
      bet == g.bets[g.actionableHandIndex + 1] + g.startingBet
      newBets == assoc(g.actionableHandIndex, bet, g.bets)
      handFinished == playerHandFinished(playerHand)
      newIndex == IF handFinished THEN getNextActionableHandIndex(g) ELSE g.actionableHandIndex
      moreHandsToPlay == newIndex # g.actionableHandIndex
      newState == IF everyBust(newPlayerHands) THEN "game-over"
                  ELSE stateAfterHit(handFinished, moreHandsToPlay)
  IN IF g.shoe = <<>> THEN OutOfCards
     ELSE Ok([g EXCEPT !.shoe = Tail(g.shoe), !.playerHands = newPlayerHands,
                       !.bets = newBets, !.actionableHandIndex = newIndex,
                       !.state = newState])

Double(g) ==
  LET playerCard == Head(g.shoe)
      playerHand == Append(g.playerHands[g.actionableHandIndex + 1], playerCard)
      newPlayerHands == assoc(g.actionableHandIndex, playerHand, g.playerHands)
      bet == g.bets[g.actionableHandIndex + 1] + g.startingBet
      newBets == assoc(g.actionableHandIndex, bet, g.bets)
      newIndex == getNextActionableHandIndex(g)
      moreHandsToPlay == newIndex # g.actionableHandIndex
      newState == IF everyBust(newPlayerHands) THEN "game-over"
                  ELSE IF moreHandsToPlay THEN "player-turn"
                  ELSE "dealer-turn"
  IN IF g.shoe = <<>> THEN OutOfCards
     ELSE Ok([g EXCEPT !.shoe = Tail(g.shoe), !.playerHands = newPlayerHands,
                       !.bets = newBets, !.actionableHandIndex = newIndex,
                       !.state = newState])

\* game.bets.flatMap((bet) => [bet, bet])
RECURSIVE flatMapTwice(_)
flatMapTwice(list) ==
  IF list = <<>> THEN <<>> ELSE <<Head(list), Head(list)>> \o flatMapTwice(Tail(list))

\* Variant: the two halves of the pair change places.
Split_swapped(g) ==
  LET hand == g.playerHands[g.actionableHandIndex + 1]
      card1 == IF Len(hand) >= 1 THEN hand[1] ELSE undefinedCard
      card2 == IF Len(hand) >= 2 THEN hand[2] ELSE undefinedCard
      before == SubSeq(g.playerHands, 1, g.actionableHandIndex)
      after == SubSeq(g.playerHands, g.actionableHandIndex + 2, Len(g.playerHands))
      newPlayerHands == before \o <<(<<card2>>), (<<card1>>)>> \o after
      newBets == flatMapTwice(g.bets)
  IN Ok([g EXCEPT !.playerHands = newPlayerHands, !.bets = newBets, !.state = "dealing"])

\* Variant: both new hands get the first card of the pair.
Split_firstCardTwice(g) ==
  LET hand == g.playerHands[g.actionableHandIndex + 1]
      card1 == IF Len(hand) >= 1 THEN hand[1] ELSE undefinedCard
      before == SubSeq(g.playerHands, 1, g.actionableHandIndex)
      after == SubSeq(g.playerHands, g.actionableHandIndex + 2, Len(g.playerHands))
      newPlayerHands == before \o <<(<<card1>>), (<<card1>>)>> \o after
      newBets == flatMapTwice(g.bets)
  IN Ok([g EXCEPT !.playerHands = newPlayerHands, !.bets = newBets, !.state = "dealing"])

Split(g) ==
  LET hand == g.playerHands[g.actionableHandIndex + 1]
      card1 == IF Len(hand) >= 1 THEN hand[1] ELSE undefinedCard
      card2 == IF Len(hand) >= 2 THEN hand[2] ELSE undefinedCard
      before == SubSeq(g.playerHands, 1, g.actionableHandIndex)
      after == SubSeq(g.playerHands, g.actionableHandIndex + 2, Len(g.playerHands))
      newPlayerHands == before \o <<(<<card1>>), (<<card2>>)>> \o after
      newBets == flatMapTwice(g.bets)
  IN Ok([g EXCEPT !.playerHands = newPlayerHands, !.bets = newBets, !.state = "dealing"])

playerTurn(g, playerAction) ==
  CASE playerAction = "hit" -> Hit(g)
    [] playerAction = "stand" -> Stand(g)
    [] playerAction = "double" -> Double(g)
    [] playerAction = "split" -> Split(g)
    [] OTHER -> Throw("NonExhaustiveError")

\* Variant: the dealer hits every soft total.
dealerShouldStand_hitsSoft(hand) ==
  LET dealerHandValue == handValue(hand)
  IN \/ dealerHandValue.kind = "blackjack"
     \/ dealerHandValue.kind = "number" /\ dealerHandValue.low >= 17

dealerShouldStand(hand) ==
  LET dealerHandValue == handValue(hand)
  IN \/ dealerHandValue.kind = "blackjack"
     \/ dealerHandValue.kind = "number" /\ dealerHandValue.low >= 17
     \/ /\ rules.dealerStandsOnAll17
        /\ dealerHandValue.kind = "soft"
        /\ dealerHandValue.high \in {17, 18, 19, 20, 21}

everyBlackjack(hands) == \A i \in 1..Len(hands) : handValue(hands[i]).kind = "blackjack"

\* Variant: the dealer draws at once and the hole card stays face down.
dealerTurn_drawsAtOnce(g) ==
  IF dealerShouldStand(g.dealerHand) THEN Ok([g EXCEPT !.state = "game-over"])
  ELSE IF Len(g.dealerHand) < 2 THEN Throw("TypeError")
  ELSE IF g.shoe = <<>> THEN OutOfCards
  ELSE LET newDealerHand == Append(g.dealerHand, Head(g.shoe))
           newShoe == Tail(g.shoe)
       IN IF everyBlackjack(g.playerHands)
            THEN Ok([g EXCEPT !.shoe = newShoe, !.dealerHand = newDealerHand,
                              !.state = "game-over"])
          ELSE Ok([g EXCEPT !.shoe = newShoe, !.dealerHand = newDealerHand,
                            !.state = IF dealerShouldStand(newDealerHand) THEN "game-over"
                                      ELSE "dealer-turn"])

dealerTurn(g) ==
  IF dealerShouldStand(g.dealerHand) THEN Ok([g EXCEPT !.state = "game-over"])
  ELSE IF Len(g.dealerHand) < 2 THEN Throw("TypeError")
  ELSE IF ~g.dealerHand[2].faceDown /\ g.shoe = <<>> THEN OutOfCards
  ELSE LET reveal == g.dealerHand[2].faceDown
           newDealerHand ==
             IF reveal THEN <<g.dealerHand[1], [g.dealerHand[2] EXCEPT !.faceDown = FALSE]>>
             ELSE Append(g.dealerHand, Head(g.shoe))
           newShoe == IF reveal THEN g.shoe ELSE Tail(g.shoe)
       IN IF everyBlackjack(g.playerHands)
            THEN Ok([g EXCEPT !.shoe = newShoe, !.dealerHand = newDealerHand,
                              !.state = "game-over"])
          ELSE Ok([g EXCEPT !.shoe = newShoe, !.dealerHand = newDealerHand,
                            !.state = IF dealerShouldStand(newDealerHand) THEN "game-over"
                                      ELSE "dealer-turn"])

\* Variant: a game-over state is returned unchanged.
nextState_gameOverReturns(g, playerAction) ==
  CASE g.state = "dealing" -> dealing(g)
    [] g.state = "player-turn" -> playerTurn(g, playerAction)
    [] g.state = "dealer-turn" -> dealerTurn(g)
    [] g.state = "game-over" -> Ok(g)
    [] OTHER -> Throw("NonExhaustiveError")

\* playerAction is one of PlayerAction, or "undefined" when the caller passes none.
nextState(g, playerAction) ==
  CASE g.state = "dealing" -> dealing(g)
    [] g.state = "player-turn" -> playerTurn(g, playerAction)
    [] g.state = "dealer-turn" -> dealerTurn(g)
    [] g.state = "game-over" -> Throw("UnreachableError")
    [] OTHER -> Throw("NonExhaustiveError")

(***************************************************************************)
(* Legal actions                                                           *)
(***************************************************************************)
\* Variant: counts the hands that start with an ace, not the adjacent pairs.
numAcesSplit_countAces(hands) ==
  Cardinality({i \in 1..Len(hands) : Len(hands[i]) > 0 /\ hands[i][1].faceValue = "A"})

\* aperture(2, firstCards).filter(both aces).length
numAcesSplit(hands) ==
  Cardinality({i \in 1..(Len(hands) - 1) :
                 hands[i][1].faceValue = "A" /\ hands[i + 1][1].faceValue = "A"})

\* Variant: each limit is one split too generous.
canSplitAces_oneMore(g) ==
  CASE rules.splitAces = 0 -> FALSE
    [] rules.splitAces = 1 -> numAcesSplit(g.playerHands) <= 1
    [] rules.splitAces = 2 -> numAcesSplit(g.playerHands) <= 2
    [] rules.splitAces = 3 -> numAcesSplit(g.playerHands) <= 3

canSplitAces(g) ==
  CASE rules.splitAces = 0 -> FALSE
    [] rules.splitAces = 1 -> numAcesSplit(g.playerHands) = 0
    [] rules.splitAces = 2 -> numAcesSplit(g.playerHands) <= 1
    [] rules.splitAces = 3 -> numAcesSplit(g.playerHands) <= 2

\* Variant: the number of hands is not limited.
canSplit_noMaxHands(g) ==
  LET playerHand == g.playerHands[g.actionableHandIndex + 1]
      isPair == Len(playerHand) = 2
                  /\ cardValue(playerHand[1], FALSE) = cardValue(playerHand[2], FALSE)
  IN isPair /\ (IF playerHand[1].faceValue = "A" THEN canSplitAces(g) ELSE TRUE)

canSplit(g) ==
  LET playerHand == g.playerHands[g.actionableHandIndex + 1]
      isPair == Len(playerHand) = 2
                  /\ cardValue(playerHand[1], FALSE) = cardValue(playerHand[2], FALSE)
      maxSplitCondition == Len(g.playerHands) < rules.maxHandsAfterSplit
  IN isPair /\ maxSplitCondition /\ (IF playerHand[1].faceValue = "A" THEN canSplitAces(g) ELSE TRUE)

\* Variant: doubleAfterSplit is not consulted.
canDouble_anyHandIndex(g) ==
  LET playerHand == g.playerHands[g.actionableHandIndex + 1]
      playerHandValue == handValue(playerHand)
      canDoubleOnCurrentHand ==
        CASE rules.doubleOn = "any" -> TRUE
          [] rules.doubleOn = "hard-9-11" ->
               playerHandValue.kind = "number" /\ playerHandValue.low \in {9, 10, 11}
          [] rules.doubleOn = "hard-10-11" ->
               playerHandValue.kind = "number" /\ playerHandValue.low \in {10, 11}
  IN Len(playerHand) = 2 /\ canDoubleOnCurrentHand

canDouble(g) ==
  LET playerHand == g.playerHands[g.actionableHandIndex + 1]
      playerHandValue == handValue(playerHand)
      canDoubleOnCurrentHand ==
        CASE rules.doubleOn = "any" -> TRUE
          [] rules.doubleOn = "hard-9-11" ->
               playerHandValue.kind = "number" /\ playerHandValue.low \in {9, 10, 11}
          [] rules.doubleOn = "hard-10-11" ->
               playerHandValue.kind = "number" /\ playerHandValue.low \in {10, 11}
  IN /\ Len(playerHand) = 2
     /\ canDoubleOnCurrentHand
     /\ (IF rules.doubleAfterSplit THEN TRUE ELSE g.actionableHandIndex = 0)

determineAllowedActions(g) ==
  IF g.state # "player-turn" THEN Throw("Not player turn")
  ELSE Ok({"hit", "stand"}
          \cup (IF canDouble(g) THEN {"double"} ELSE {})
          \cup (IF canSplit(g) THEN {"split"} ELSE {}))

(***************************************************************************)
(* Outcomes                                                                *)
(***************************************************************************)
Outcome(result, reason) == [result |-> result, reason |-> reason]

\* Variant: soft totals are compared by their low side.
handOutcome_lowSide(playerHand, dealerCards) ==
  LET playerHandValue == handValue(playerHand)
      dealerHandValue == handValue(dealerCards)
      playerLow == playerHandValue.low
      dealerLow == dealerHandValue.low
  IN IF playerHandValue.kind = "blackjack" /\ dealerHandValue.kind = "blackjack"
       THEN Outcome("push", "none")
     ELSE IF playerHandValue.kind = "blackjack" THEN Outcome("player-win", "blackjack")
     ELSE IF dealerHandValue.kind = "blackjack" THEN Outcome("player-loss", "blackjack")
     ELSE IF playerLow > 21 THEN Outcome("player-loss", "player-bust")
     ELSE IF dealerLow > 21 THEN Outcome("player-win", "dealer-bust")
     ELSE IF playerLow > dealerLow THEN Outcome("player-win", "higher-hand")
     ELSE IF playerLow < dealerLow THEN Outcome("player-loss", "higher-hand")
     ELSE Outcome("push", "none")

handOutcome(playerHand, dealerCards) ==
  LET playerHandValue == handValue(playerHand)
      dealerHandValue == handValue(dealerCards)
      \* the high side of a soft total, the number itself otherwise
      playerHigh == playerHandValue.high
      dealerHigh == dealerHandValue.high
  IN IF playerHandValue.kind = "blackjack" /\ dealerHandValue.kind = "blackjack"
       THEN Outcome("push", "none")
     ELSE IF playerHandValue.kind = "blackjack" THEN Outcome("player-win", "blackjack")
     ELSE IF dealerHandValue.kind = "blackjack" THEN Outcome("player-loss", "blackjack")
     ELSE IF playerHigh > 21 THEN Outcome("player-loss", "player-bust")
     ELSE IF dealerHigh > 21 THEN Outcome("player-win", "dealer-bust")
     ELSE IF playerHigh > dealerHigh THEN Outcome("player-win", "higher-hand")
     ELSE IF playerHigh < dealerHigh THEN Outcome("player-loss", "higher-hand")
     ELSE Outcome("push", "none")

\* Variant: only the dealing phase is refused.
determinePlayerHandOutcomes_dealingOnly(g) ==
  IF g.state = "dealing" THEN Throw("Game is not over")
  ELSE Ok([i \in 1..Len(g.playerHands) |-> handOutcome(g.playerHands[i], g.dealerHand)])

determinePlayerHandOutcomes(g) ==
  IF g.state # "game-over" THEN Throw("Game is not over")
  ELSE Ok([i \in 1..Len(g.playerHands) |-> handOutcome(g.playerHands[i], g.dealerHand)])

(***************************************************************************)
(* Payouts (src/index.ts)                                                  *)
(***************************************************************************)
\* payout * amount
times(payout, amount) == (payout.num * amount) \div payout.den

\* zip(game.bets, playerHandOutcomes) stops at the shorter list
zipLen(bets, outcomes) == IF Len(bets) < Len(outcomes) THEN Len(bets) ELSE Len(outcomes)

RECURSIVE sumUpTo(_, _)
sumUpTo(credit, n) == IF n = 0 THEN 0 ELSE credit[n] + sumUpTo(credit, n - 1)

\* earnings of printGameResult
printGameResult(g) ==
  LET playerHandOutcomes == determinePlayerHandOutcomes(g).value
      n == zipLen(g.bets, playerHandOutcomes)
      credit == [i \in 1..n |->
                  LET bet == g.bets[i]
                      outcome == playerHandOutcomes[i]
                  IN (IF outcome.result = "player-win" /\ outcome.reason # "blackjack"
                        THEN bet * 2 ELSE 0)
                     + (IF outcome.result = "player-win" /\ outcome.reason = "blackjack"
                          THEN times(rules.blackjackPayout, bet * 2) ELSE 0)
                     + (IF outcome.result = "push" THEN bet ELSE 0)]
  IN sumUpTo(credit, n)

\* what monteCarloSimulation adds to the bankroll at game-over
monteCarloSimulation(g) ==
  LET playerHandOutcomes == determinePlayerHandOutcomes(g).value
      n == zipLen(g.bets, playerHandOutcomes)
      credit == [i \in 1..n |->
                  LET bet == g.bets[i]
                      outcome == playerHandOutcomes[i]
                  IN IF outcome.result = "player-win"
                       THEN (IF outcome.reason # "blackjack" THEN bet + bet ELSE 0)
                            + (IF outcome.reason = "blackjack"
                                 THEN bet + times(rules.blackjackPayout, bet) ELSE 0)
                     ELSE IF outcome.result = "push" THEN bet
                     ELSE 0]
  IN sumUpTo(credit, n)

(***************************************************************************)
(* Basic strategy                                                          *)
(***************************************************************************)
\* One cell per dealer upcard 2, 3, .., 10, A.
Row(c2, c3, c4, c5, c6, c7, c8, c9, c10, cA) == <<c2, c3, c4, c5, c6, c7, c8, c9, c10, cA>>

allH == Row("H", "H", "H", "H", "H", "H", "H", "H", "H", "H")

allS == Row("S", "S", "S", "S", "S", "S", "S", "S", "S", "S")

allP == Row("P", "P", "P", "P", "P", "P", "P", "P", "P", "P")

standUpTo6 == Row("S", "S", "S", "S", "S", "H", "H", "H", "H", "H")

playerHardTotals ==
  [t \in 2..20 |->
     CASE t \in 2..8 -> allH
       [] t = 9 -> Row("H", "D", "D", "D", "D", "H", "H", "H", "H", "H")
       [] t = 10 -> Row("D", "D", "D", "D", "D", "D", "D", "D", "H", "H")
       [] t = 11 -> Row("D", "D", "D", "D", "D", "D", "D", "D", "D", "D")
       [] t = 12 -> Row("H", "H", "S", "S", "S", "H", "H", "H", "H", "H")
       [] t \in 13..16 -> standUpTo6
       [] t \in 17..20 -> allS]

playerSoftTotals ==
  [t \in 11..20 |->
     CASE t \in 11..12 -> allH
       [] t \in 13..14 -> Row("H", "H", "H", "D", "D", "H", "H", "H", "H", "H")
       [] t \in 15..16 -> Row("H", "H", "D", "D", "D", "H", "H", "H", "H", "H")
       [] t = 17 -> Row("H", "D", "D", "D", "D", "H", "H", "H", "H", "H")
       [] t = 18 -> Row("S", "D/S", "D/S", "D/S", "D/S", "S", "S", "H", "H", "H")
       [] t \in 19..20 -> allS]

playerPairs ==
  [v \in 1..10 |->
     CASE v = 1 -> allP
       [] v \in 2..3 -> Row("P/H", "P/H", "P", "P", "P", "P", "H", "H", "H", "H")
       [] v = 4 -> Row("H", "H", "H", "P/H", "P/H", "H", "H", "H", "H", "H")
       [] v = 5 -> Row("D", "D", "D", "D", "D", "D", "D", "D", "H", "H")
       [] v = 6 -> Row("P/H", "P", "P", "P", "P", "H", "H", "H", "H", "H")
       [] v = 7 -> Row("P", "P", "P", "P", "P", "P", "H", "H", "H", "H")
       [] v = 8 -> allP
       [] v = 9 -> Row("P", "P", "P", "P", "P", "S", "P", "P", "S", "S")
       [] v = 10 -> allS]

\* table[row][column], where a missing row or column is a failed read
lookup(table, row, column) ==
  IF row \notin DOMAIN table THEN Throw("TypeError")
  ELSE IF (column + 1) \notin DOMAIN table[row] THEN Throw("NonExhaustiveError")
  ELSE Ok(table[row][column + 1])

\* Variant: the dealer's column is read from the hole card.
playerActionCode_seesHoleCard(g) ==
  LET playerHand == g.playerHands[g.actionableHandIndex + 1]
      playerHandValue == handValue(playerHand)
      dealerUpcardValue == cardValue([g.dealerHand[2] EXCEPT !.faceDown = FALSE], TRUE)
      playerHasPair == Len(playerHand) = 2
                         /\ cardValue(playerHand[1], FALSE) = cardValue(playerHand[2], FALSE)
      allowedActions == determineAllowedActions(g).value
  IN IF playerHasPair /\ "split" \in allowedActions
       THEN lookup(playerPairs, cardValue(playerHand[1], FALSE), dealerUpcardValue - 2)
     ELSE IF playerHandValue.kind = "number"
       THEN lookup(playerHardTotals, playerHandValue.low, dealerUpcardValue - 2)
     ELSE IF playerHandValue.kind = "soft"
       THEN lookup(playerSoftTotals, playerHandValue.high, dealerUpcardValue - 2)
     ELSE Throw("NonExhaustiveError")

\* playerActionCode: the table cell basicStrategy reads
playerActionCode(g) ==
  LET playerHand == g.playerHands[g.actionableHandIndex + 1]
      playerHandValue == handValue(playerHand)
      dealerUpcardValue == cardValue(g.dealerHand[1], TRUE)
      playerHasPair == Len(playerHand) = 2
                         /\ cardValue(playerHand[1], FALSE) = cardValue(playerHand[2], FALSE)
      allowedActions == determineAllowedActions(g).value
  IN IF playerHasPair /\ "split" \in allowedActions
       THEN lookup(playerPairs, cardValue(playerHand[1], FALSE), dealerUpcardValue - 2)
     ELSE IF playerHandValue.kind = "number"
       THEN lookup(playerHardTotals, playerHandValue.low, dealerUpcardValue - 2)
     ELSE IF playerHandValue.kind = "soft"
       THEN lookup(playerSoftTotals, playerHandValue.high, dealerUpcardValue - 2)
     ELSE Throw("NonExhaustiveError")

\* Variant: a D cell is not checked against the allowed actions.
actionForCode_noFallback(code, allowedActions) ==
  CASE code = "H" -> "hit"
    [] code = "S" -> "stand"
    [] code = "D" -> "double"
    [] code = "D/S" -> (IF "double" \in allowedActions THEN "double" ELSE "stand")
    [] code = "P" -> "split"
    [] code = "P/H" -> (IF rules.doubleAfterSplit THEN "split" ELSE "hit")

actionForCode(code, allowedActions) ==
  CASE code = "H" -> "hit"
    [] code = "S" -> "stand"
    [] code = "D" -> (IF "double" \in allowedActions THEN "double" ELSE "hit")
    [] code = "D/S" -> (IF "double" \in allowedActions THEN "double" ELSE "stand")
    [] code = "P" -> "split"
    [] code = "P/H" -> (IF rules.doubleAfterSplit THEN "split" ELSE "hit")

basicStrategy(g) ==
  IF g.state # "player-turn" THEN Throw("Not player turn")
  ELSE IF playerActionCode(g).threw # "none" THEN playerActionCode(g)
  ELSE Ok(actionForCode(playerActionCode(g).value, determineAllowedActions(g).value))

(***************************************************************************)
(* Initial state                                                           *)
(***************************************************************************)
\* The front of a shuffled shoe: any order of face-up cards.
Shoes == [1..ShoeLen -> {[faceValue |-> f, faceDown |-> FALSE] : f \in ShoeFaceValues}]

initState(bet, shuffled) ==
  [shoe |-> shuffled, playerHands |-> <<(<<>>)>>, actionableHandIndex |-> 0,
   dealerHand |-> <<>>, state |-> "dealing", startingBet |-> bet, bets |-> <<bet>>]

Init ==
  /\ rules \in RuleSets
  /\ \E shuffled \in Shoes : game = initState(flatBet, shuffled)
  /\ history = [aceSplits |-> 0]

(***************************************************************************)
(* The driver loop (src/index.ts): nextState is called without an action   *)
(* outside player-turn and with one of the allowed actions in player-turn, *)
(* until the state is game-over.                                           *)
(***************************************************************************)
\* game = nextState(game, playerAction), when the call returns
Advance(playerAction) ==
  /\ \E result \in {nextState(game, playerAction)} :
       result.threw = "none" /\ game' = result.value
  /\ rules' = rules
  /\ history' =
       IF game.state = "player-turn" /\ playerAction = "split"
            /\ game.playerHands[game.actionableHandIndex + 1][1].faceValue = "A"
         THEN [history EXCEPT !.aceSplits = @ + 1]
       ELSE history

DealStep == game.state = "dealing" /\ Advance("undefined")

\* The driver passes only actions that determineAllowedActions returned.
Allowed(playerAction) ==
  game.state = "player-turn" /\ playerAction \in determineAllowedActions(game).value

HitStep == Allowed("hit") /\ Advance("hit")

StandStep == Allowed("stand") /\ Advance("stand")

DoubleStep == Allowed("double") /\ Advance("double")

SplitStep == Allowed("split") /\ Advance("split")

DealerStep == game.state = "dealer-turn" /\ Advance("undefined")

Next == DealStep \/ HitStep \/ StandStep \/ DoubleStep \/ SplitStep \/ DealerStep

Spec == Init /\ [][Next]_vars

(***************************************************************************)
(* The split-ace rules.  The engine that src/index.ts drives (acesSplit,   *)
(* handValue with a second argument) has three ruleset fields more than    *)
(* the variants of src/blackjack.ts: hitOnSplitAce, splitAceCanBeBlackjack *)
(* and doubleOnSplitAce.  The definitions of this section follow the       *)
(* specification document, sections 3 and 4, and use the definitions above *)
(* where the document and the source agree.                                *)
(***************************************************************************)
SplitAceRules ==
  [{"hitOnSplitAce", "splitAceCanBeBlackjack", "doubleOnSplitAce"} -> BOOLEAN]

\* Rulesets under which aces can be split, with the three fields added.
SplitAceRuleSets ==
  {r @@ extra : r \in {rs \in RuleSets : rs.splitAces > 0}, extra \in SplitAceRules}

\* aces have been split for this round
acesSplit(playerHands) == numAcesSplit(playerHands) > 0

\* Variant: a natural from split aces is never demoted.
fullHandValue_noDemotion(hand, acesWereSplit) == handValue(hand)

\* handValue(hand, acesWereSplit): a natural of a hand produced from splitting
\* aces is the plain total 21 unless splitAceCanBeBlackjack is set
fullHandValue(hand, acesWereSplit) ==
  IF handValue(hand) = Blackjack /\ acesWereSplit /\ ~rules.splitAceCanBeBlackjack
    THEN Number(21)
  ELSE handValue(hand)

fullBust(g, hand) ==
  LET value == fullHandValue(hand, acesSplit(g.playerHands))
  IN value.kind = "number" /\ value.low > 21

\* The finishing rule of section 4.2 for the actionable hand of g.
fullHandFinished(g) ==
  LET hand == g.playerHands[g.actionableHandIndex + 1]
      value == fullHandValue(hand, acesSplit(g.playerHands))
      splitAcePair == /\ Len(hand) = 2
                      /\ hand[1].faceValue = "A"
                      /\ hand[2].faceValue = "A"
                      /\ acesSplit(g.playerHands)
  IN \/ value.kind = "number" /\ value.low > 21
     \/ value.kind = "number" /\ value.low = 21
     \/ value.kind = "soft" /\ value.high = 21
     \/ value.kind = "blackjack"
     \/ splitAcePair /\ ~rules.hitOnSplitAce /\ ~canSplit(g)

\* Variant: Hit stays legal after aces were split.
fullAllowedActions_hitAlways(g) ==
  IF g.state # "player-turn" THEN Throw("Not player turn")
  ELSE IF fullHandFinished(g) THEN Throw("Hand finished")
  ELSE LET hand == g.playerHands[g.actionableHandIndex + 1]
           split == acesSplit(g.playerHands)
           value == fullHandValue(hand, split)
           eligible ==
             CASE rules.doubleOn = "any" -> TRUE
               [] rules.doubleOn = "hard-9-11" ->
                    value.kind = "number" /\ value.low \in {9, 10, 11}
               [] rules.doubleOn = "hard-10-11" ->
                    value.kind = "number" /\ value.low \in {10, 11}
           double == /\ Len(hand) = 2
                     /\ eligible
                     /\ (rules.doubleAfterSplit \/ g.actionableHandIndex = 0)
                     /\ (rules.doubleOnSplitAce \/ ~split)
       IN Ok({"hit", "stand"}
             \cup (IF double THEN {"double"} ELSE {})
             \cup (IF canSplit(g) THEN {"split"} ELSE {}))

\* The Legal-Action Oracle of section 4.3.
fullAllowedActions(g) ==
  IF g.state # "player-turn" THEN Throw("Not player turn")
  ELSE IF fullHandFinished(g) THEN Throw("Hand finished")
  ELSE LET hand == g.playerHands[g.actionableHandIndex + 1]
           split == acesSplit(g.playerHands)
           value == fullHandValue(hand, split)
           hit == ~(split /\ ~rules.hitOnSplitAce)
           eligible ==
             CASE rules.doubleOn = "any" -> TRUE
               [] rules.doubleOn = "hard-9-11" ->
                    value.kind = "number" /\ value.low \in {9, 10, 11}
               [] rules.doubleOn = "hard-10-11" ->
                    value.kind = "number" /\ value.low \in {10, 11}
           double == /\ Len(hand) = 2
                     /\ eligible
                     /\ (rules.doubleAfterSplit \/ g.actionableHandIndex = 0)
                     /\ (rules.doubleOnSplitAce \/ ~split)
       IN Ok({"stand"}
             \cup (IF hit THEN {"hit"} ELSE {})
             \cup (IF double THEN {"double"} ELSE {})
             \cup (IF canSplit(g) THEN {"split"} ELSE {}))

\* The actionable hand of g is played: on to a waiting split hand, which is
\* dealt its second card, or to the dealer, or to the end when every hand is bust.
fullHandPlayed(g) ==
  LET next == getNextActionableHandIndex(g)
  IN IF next # g.actionableHandIndex
       THEN [g EXCEPT !.actionableHandIndex = next, !.state = "dealing"]
     ELSE IF \A i \in 1..Len(g.playerHands) : fullBust(g, g.playerHands[i])
       THEN [g EXCEPT !.state = "game-over"]
     ELSE [g EXCEPT !.state = "dealer-turn"]

\* One card from the shoe to the actionable hand.
fullDealt(g) ==
  [g EXCEPT !.shoe = Tail(g.shoe),
            !.playerHands[g.actionableHandIndex + 1] = Append(@, Head(g.shoe))]

fullDealing(g) ==
  IF g.shoe = <<>> THEN OutOfCards
  ELSE IF Len(g.playerHands) = 1 THEN dealOpening(g)
  ELSE IF fullHandFinished(fullDealt(g)) THEN Ok(fullHandPlayed(fullDealt(g)))
  ELSE Ok([fullDealt(g) EXCEPT !.state = "player-turn"])

fullHit(g) ==
  IF g.shoe = <<>> THEN OutOfCards
  ELSE IF fullHandFinished(fullDealt(g)) THEN Ok(fullHandPlayed(fullDealt(g)))
  ELSE Ok([fullDealt(g) EXCEPT !.state = "player-turn"])

fullStand(g) == Ok(fullHandPlayed(g))

fullDouble(g) ==
  IF g.shoe = <<>> THEN OutOfCards
  ELSE Ok(fullHandPlayed([fullDealt(g) EXCEPT
            !.bets[g.actionableHandIndex + 1] = @ + g.startingBet]))

fullSplit(g) ==
  LET hand == g.playerHands[g.actionableHandIndex + 1]
      before == SubSeq(g.playerHands, 1, g.actionableHandIndex)
      after == SubSeq(g.playerHands, g.actionableHandIndex + 2, Len(g.playerHands))
  IN Ok([g EXCEPT !.playerHands = before \o <<(<<hand[1]>>), (<<hand[2]>>)>> \o after,
                  !.bets = Append(g.bets, g.startingBet),
                  !.state = "dealing"])

\* An action that the oracle does not list is a usage error.
fullPlayerTurn(g, playerAction) ==
  IF playerAction \notin fullAllowedActions(g).value THEN Throw("Illegal action")
  ELSE CASE playerAction = "hit" -> fullHit(g)
         [] playerAction = "stand" -> fullStand(g)
         [] playerAction = "double" -> fullDouble(g)
         [] playerAction = "split" -> fullSplit(g)

\* Every player hand that is not bust is a natural, a demoted one not counting.
fullEveryNatural(g) ==
  \A i \in 1..Len(g.playerHands) :
    \/ fullBust(g, g.playerHands[i])
    \/ fullHandValue(g.playerHands[i], acesSplit(g.playerHands)).kind = "blackjack"

fullDealerTurn(g) ==
  IF dealerShouldStand(g.dealerHand) THEN Ok([g EXCEPT !.state = "game-over"])
  ELSE IF ~g.dealerHand[2].faceDown /\ g.shoe = <<>> THEN OutOfCards
  ELSE LET reveal == g.dealerHand[2].faceDown
           newDealerHand ==
             IF reveal THEN allFaceUp(g.dealerHand) ELSE Append(g.dealerHand, Head(g.shoe))
           newShoe == IF reveal THEN g.shoe ELSE Tail(g.shoe)
       IN Ok([g EXCEPT !.shoe = newShoe, !.dealerHand = newDealerHand,
                       !.state = IF fullEveryNatural(g) \/ dealerShouldStand(newDealerHand)
                                   THEN "game-over"
                                 ELSE "dealer-turn"])

fullNextState(g, playerAction) ==
  CASE g.state = "dealing" -> fullDealing(g)
    [] g.state = "player-turn" -> fullPlayerTurn(g, playerAction)
    [] g.state = "dealer-turn" -> fullDealerTurn(g)
    [] g.state = "game-over" -> Throw("UnreachableError")

\* The Outcome Resolver of section 4.4: the classification of the source on the
\* hand values of section 4.1.
fullHandOutcome(g, playerHand) ==
  LET playerHandValue == fullHandValue(playerHand, acesSplit(g.playerHands))
      dealerHandValue == handValue(g.dealerHand)
  IN IF playerHandValue.kind = "blackjack" /\ dealerHandValue.kind = "blackjack"
       THEN Outcome("push", "none")
     ELSE IF playerHandValue.kind = "blackjack" THEN Outcome("player-win", "blackjack")
     ELSE IF dealerHandValue.kind = "blackjack" THEN Outcome("player-loss", "blackjack")
     ELSE IF playerHandValue.high > 21 THEN Outcome("player-loss", "player-bust")
     ELSE IF dealerHandValue.high > 21 THEN Outcome("player-win", "dealer-bust")
     ELSE IF playerHandValue.high > dealerHandValue.high
       THEN Outcome("player-win", "higher-hand")
     ELSE IF playerHandValue.high < dealerHandValue.high
       THEN Outcome("player-loss", "higher-hand")
     ELSE Outcome("push", "none")

fullPlayerHandOutcomes(g) ==
  IF g.state # "game-over" THEN Throw("Game is not over")
  ELSE Ok([i \in 1..Len(g.playerHands) |-> fullHandOutcome(g, g.playerHands[i])])

\* Rounds whose opening deal gives the player a pair of aces.
SplitAceShoes == {shoe \in Shoes : shoe[1].faceValue = "A" /\ shoe[3].faceValue = "A"}

\* history counts the Splits of an ace pair and the Hits on hands of a round in
\* which aces were split.
SplitAceInit ==
  /\ rules \in SplitAceRuleSets
  /\ \E shuffled \in SplitAceShoes : game = initState(flatBet, shuffled)
  /\ history = [aceSplits |-> 0, splitAceHits |-> 0]

FullAdvance(playerAction) ==
  /\ \E result \in {fullNextState(game, playerAction)} :
       result.threw = "none" /\ game' = result.value
  /\ rules' = rules
  /\ history' =
       IF game.state = "player-turn" /\ playerAction = "split"
            /\ game.playerHands[game.actionableHandIndex + 1][1].faceValue = "A"
         THEN [history EXCEPT !.aceSplits = @ + 1]
       ELSE IF game.state = "player-turn" /\ playerAction = "hit"
                 /\ acesSplit(game.playerHands)
         THEN [history EXCEPT !.splitAceHits = @ + 1]
       ELSE history

FullAllowed(playerAction) ==
  game.state = "player-turn" /\ playerAction \in fullAllowedActions(game).value

FullDealStep == game.state = "dealing" /\ FullAdvance("undefined")

FullHitStep == FullAllowed("hit") /\ FullAdvance("hit")

FullStandStep == FullAllowed("stand") /\ FullAdvance("stand")

FullDoubleStep == FullAllowed("double") /\ FullAdvance("double")

FullSplitStep == FullAllowed("split") /\ FullAdvance("split")

FullDealerStep == game.state = "dealer-turn" /\ FullAdvance("undefined")

SplitAceNext ==
  \/ FullDealStep
  \/ FullHitStep
  \/ FullStandStep
  \/ FullDoubleStep
  \/ FullSplitStep
  \/ FullDealerStep

SplitAceSpec == SplitAceInit /\ [][SplitAceNext]_vars

(***************************************************************************)
(* initState on its own, with the whole shoe and the suits.  The shoe is   *)
(* numDecks copies of the 52-card template, in the order a sort with a     *)
(* random comparator leaves them in: some permutation, drawn here from the *)
(* cuts of the unshuffled shoe and their reversals.  history holds the     *)
(* starting bet passed and the permutation drawn; game holds the state     *)
(* returned, once initState has been called.                               *)
(***************************************************************************)
Suit == <<"hearts", "diamonds", "clubs", "spades">>

faceValues == <<"A", "2", "3", "4", "5", "6", "7", "8", "9", "10", "J", "Q", "K">>

numDecks == 8

\* Object.values(Suit).flatMap((suit) => Object.values(FaceValue).map(...))
UNSHUFFLED_DECK_TEMPLATE ==
  [k \in 1..(Len(Suit) * Len(faceValues)) |->
     [suit |-> Suit[((k - 1) \div Len(faceValues)) + 1],
      faceValue |-> faceValues[((k - 1) % Len(faceValues)) + 1],
      faceDown |-> FALSE]]

\* Variant: one deck short.
unshuffledShoe_oneDeckShort ==
  [k \in 1..((numDecks - 1) * Len(UNSHUFFLED_DECK_TEMPLATE)) |->
     UNSHUFFLED_DECK_TEMPLATE[((k - 1) % Len(UNSHUFFLED_DECK_TEMPLATE)) + 1]]

\* Array.from({ length: numDecks }, () => UNSHUFFLED_DECK_TEMPLATE).flat()
unshuffledShoe ==
  [k \in 1..(numDecks * Len(UNSHUFFLED_DECK_TEMPLATE)) |->
     UNSHUFFLED_DECK_TEMPLATE[((k - 1) % Len(UNSHUFFLED_DECK_TEMPLATE)) + 1]]

\* Where the unshuffled shoe is cut.
ShuffleCuts == {0, 1, 13, 51, 52, 207, 415}

\* .sort(() => Math.random() - 0.5): the shoe cut at a card and possibly reversed
shuffle(shoe, cut, reversed) ==
  LET n == Len(shoe)
      rotated == [i \in 1..n |-> shoe[((i - 1 + cut) % n) + 1]]
  IN IF reversed THEN [i \in 1..n |-> rotated[n + 1 - i]] ELSE rotated

\* The stakes the drivers start a round with.
StartingBets == {1, flatBet}

notStarted == [state |-> "none"]

InitStateInit ==
  /\ rules \in RuleSets
  /\ game = notStarted
  /\ \E bet \in StartingBets, cut \in ShuffleCuts, reversed \in BOOLEAN :
       history = [startingBet |-> bet, cut |-> cut, reversed |-> reversed]

\* game = initState(startingBet)
InitStateStep ==
  /\ game = notStarted
  /\ game' = initState(history.startingBet,
                       shuffle(unshuffledShoe, history.cut, history.reversed))
  /\ UNCHANGED <<rules, history>>

InitStateSpec == InitStateInit /\ [][InitStateStep]_vars

(***************************************************************************)
(* handValue on its own: game holds the argument, a hand of up to          *)
(* MaxHandLen cards of any face value, and history the value returned for  *)
(* it.  As in a round, only the second card of a hand can be face down.    *)
(***************************************************************************)
Cards == {[faceValue |-> f, faceDown |-> FALSE] : f \in FaceValue}

\* The hand with its second card face down, when there is one and down is set.
withHoleCard(hand, down) ==
  [i \in 1..Len(hand) |->
     IF i = 2 /\ down THEN [hand[i] EXCEPT !.faceDown = TRUE] ELSE hand[i]]

notValued == [kind |-> "none", low |-> 0, high |-> 0]

HandValueInit ==
  /\ rules \in RuleSets
  /\ \E n \in 0..MaxHandLen :
       \E hand \in [1..n -> Cards], down \in BOOLEAN :
         game = [hand |-> withHoleCard(hand, down)]
  /\ history = [value |-> notValued]

\* value = handValue(hand)
HandValueStep ==
  /\ history.value = notValued
  /\ history' = [value |-> handValue(game.hand)]
  /\ UNCHANGED <<game, rules>>

HandValueSpec == HandValueInit /\ [][HandValueStep]_vars

(***************************************************************************)
(* Rounds that open with a pair of kings for the player, followed one card *)
(* further than the rounds of Spec: far enough for a split, a natural on   *)
(* one split hand and a bust on the other before the dealer plays.         *)
(***************************************************************************)
TenPairFaceValues == {"A", "5", "K"}

TenPairShoes ==
  {shoe \in [1..(ShoeLen + 1) ->
               {[faceValue |-> f, faceDown |-> FALSE] : f \in TenPairFaceValues}] :
     shoe[1].faceValue = "K" /\ shoe[3].faceValue = "K"}

TenPairInit ==
  /\ rules \in {r \in RuleSets : r.maxHandsAfterSplit >= 2}
  /\ \E shuffled \in TenPairShoes : game = initState(flatBet, shuffled)
  /\ history = [aceSplits |-> 0]

TenPairSpec == TenPairInit /\ [][Next]_vars

(***************************************************************************)
(* Rounds in which the player's first three cards are kings, followed two  *)
(* cards further than the rounds of Spec: far enough for two splits, a     *)
(* Double on the first hand and a third split on the last hand.            *)
(***************************************************************************)
ThreeKingsShoes ==
  {shoe \in [1..(ShoeLen + 2) ->
               {[faceValue |-> f, faceDown |-> FALSE] : f \in TenPairFaceValues}] :
     shoe[1].faceValue = "K" /\ shoe[3].faceValue = "K" /\ shoe[5].faceValue = "K"}

ThreeKingsInit ==
  /\ rules \in {r \in RuleSets : r.maxHandsAfterSplit >= 3}
  /\ \E shuffled \in ThreeKingsShoes : game = initState(flatBet, shuffled)
  /\ history = [aceSplits |-> 0]

ThreeKingsSpec == ThreeKingsInit /\ [][Next]_vars

(***************************************************************************)
(* Properties                                                              *)
(***************************************************************************)
actionableHand == game.playerHands[game.actionableHandIndex + 1]

allowedNow == determineAllowedActions(game).value

phaseRank(phase) ==
  CASE phase \in {"dealing", "player-turn"} -> 2
    [] phase = "dealer-turn" -> 1
    [] phase = "game-over" -> 0

\* What is left of a round: cards to draw, splits to make, hands to play, phases
\* to pass, hole cards to reveal.
Rank(g) ==
  100 * Len(g.shoe)
    + 20 * (rules.maxHandsAfterSplit - Len(g.playerHands))
    + 4 * (Len(g.playerHands) - g.actionableHandIndex)
    + phaseRank(g.state)
    + Cardinality({i \in 1..Len(g.dealerHand) : g.dealerHand[i].faceDown})

\* nextState returns a state for every call the driver can make on g.
CanAdvance(g) ==
  CASE g.state = "game-over" -> TRUE
    [] g.state = "player-turn" ->
         \A a \in determineAllowedActions(g).value :
           nextState(g, a).threw \in {"none", "out-of-cards"}
    [] OTHER -> nextState(g, "undefined").threw \in {"none", "out-of-cards"}

\* C1: every round terminates.  Each transition of the round strictly lowers
\* Rank, a natural number, so no run of dealing, player-turn and dealer-turn
\* steps is infinite; and nextState never fails before game-over on a call of
\* the driver, so the run ends in game-over (or where the modelled part of the
\* shoe ends).
C1_RoundTerminates ==
  [][/\ Rank(game') < Rank(game)
     /\ Rank(game') >= 0
     /\ CanAdvance(game)
     /\ CanAdvance(game')]_vars

\* A round with a split, a played second hand and a dealer draw has ended.
C1_Witness ==
  /\ game.state = "game-over"
  /\ Len(game.playerHands) = 2
  /\ Len(game.dealerHand) = 3

\* C2: bets has the length of playerHands in every reachable state, and at
\* game-over there is one outcome per player hand.
C2_BetsAlignedWithHands ==
  /\ Len(game.bets) = Len(game.playerHands)
  /\ game.state = "game-over" =>
       Len(determinePlayerHandOutcomes(game).value) = Len(game.playerHands)

\* C3: in player-turn an action outside determineAllowedActions makes nextState
\* fail, with no successor state.
C3_IllegalActionRejected ==
  game.state = "player-turn" =>
    \A a \in PlayerAction \ allowedNow : nextState(game, a).threw # "none"

\* C5: game-over is terminal: nextState fails on a game-over state, with any
\* action or none.
C5_GameOverIsTerminal ==
  game.state = "game-over" =>
    \A a \in PlayerAction \cup {"undefined"} : nextState(game, a).threw = "UnreachableError"

\* A round that ended after the dealer played.
C5_Witness == game.state = "game-over" /\ Len(game.dealerHand) >= 3

\* The classification of one hand as C4 words it, on the two hand values.
Classified(playerValue, dealerValue) ==
  CASE playerValue.kind = "blackjack" /\ dealerValue.kind = "blackjack" ->
         Outcome("push", "none")
    [] playerValue.kind = "blackjack" /\ dealerValue.kind # "blackjack" ->
         Outcome("player-win", "blackjack")
    [] playerValue.kind # "blackjack" /\ dealerValue.kind = "blackjack" ->
         Outcome("player-loss", "blackjack")
    [] OTHER ->
         LET player == IF playerValue.kind = "soft" THEN playerValue.high ELSE playerValue.low
             dealer == IF dealerValue.kind = "soft" THEN dealerValue.high ELSE dealerValue.low
         IN CASE player > 21 -> Outcome("player-loss", "player-bust")
              [] player <= 21 /\ dealer > 21 -> Outcome("player-win", "dealer-bust")
              [] player <= 21 /\ dealer <= 21 /\ player > dealer ->
                   Outcome("player-win", "higher-hand")
              [] player <= 21 /\ dealer <= 21 /\ player < dealer ->
                   Outcome("player-loss", "higher-hand")
              [] OTHER -> Outcome("push", "none")

\* C4: at game-over every player hand is classified as push, player-win or
\* player-loss with the stated reason, soft totals counting by their high side;
\* a player natural against a dealer without one is player-win/blackjack.
C4_OutcomeClassification ==
  game.state = "game-over" =>
    \A outcomes \in {determinePlayerHandOutcomes(game)}, dealer \in {handValue(game.dealerHand)} :
      /\ outcomes.threw = "none"
      /\ \A i \in 1..Len(game.playerHands) :
           outcomes.value[i] = Classified(handValue(game.playerHands[i]), dealer)

\* A natural wins against a revealed dealer hand that stopped below 17.
C4_Witness ==
  /\ game.state = "game-over"
  /\ handValue(game.playerHands[1]).kind = "blackjack"
  /\ \A i \in 1..Len(game.dealerHand) : ~game.dealerHand[i].faceDown
  /\ handValue(game.dealerHand).kind # "blackjack"
  /\ handValue(game.dealerHand).high < 17
  /\ determinePlayerHandOutcomes(game).value[1] = Outcome("player-win", "blackjack")

\* C6: determinePlayerHandOutcomes fails outside game-over; basicStrategy and
\* determineAllowedActions fail outside player-turn.
C6_QueriesArePhaseGuarded ==
  /\ game.state # "game-over" =>
       determinePlayerHandOutcomes(game).threw = "Game is not over"
  /\ game.state # "player-turn" =>
       /\ basicStrategy(game).threw = "Not player turn"
       /\ determineAllowedActions(game).threw = "Not player turn"

\* The player is to act: the outcomes are refused; and the dealer is to act: the
\* player's queries are refused.
C6_Witness == game.state = "dealer-turn" /\ Len(game.playerHands) = 2

\* C7: in player-turn Split is allowed exactly for a two-card hand of equal card
\* values, with fewer than maxHandsAfterSplit hands and, for a pair of aces,
\* fewer ace splits made so far than rules.splitAces.
C7_SplitLegality ==
  game.state = "player-turn" =>
    ("split" \in allowedNow
       <=> /\ Len(actionableHand) = 2
           /\ cardValue(actionableHand[1], FALSE) = cardValue(actionableHand[2], FALSE)
           /\ Len(game.playerHands) < rules.maxHandsAfterSplit
           /\ (actionableHand[1].faceValue = "A" =>
                 history.aceSplits < rules.splitAces))

\* A pair of aces that only the ace limit keeps from being split again.
C7_Witness ==
  /\ game.state = "player-turn"
  /\ Len(actionableHand) = 2
  /\ actionableHand[1].faceValue = "A"
  /\ actionableHand[2].faceValue = "A"
  /\ Len(game.playerHands) < rules.maxHandsAfterSplit
  /\ history.aceSplits = rules.splitAces
  /\ history.aceSplits > 0
  /\ "split" \notin allowedNow

\* The total of a hand that holds no ace.
hardTotalIn(hand, totals) ==
  /\ \A i \in 1..Len(hand) : hand[i].faceValue # "A"
  /\ sumValues(hand) \in totals

\* C8: in player-turn Double is allowed exactly for a two-card hand whose total
\* is eligible under rules.doubleOn, with doubleAfterSplit set or hand index 0.
C8_DoubleLegality ==
  game.state = "player-turn" =>
    ("double" \in allowedNow
       <=> /\ Len(actionableHand) = 2
           /\ CASE rules.doubleOn = "any" -> TRUE
                [] rules.doubleOn = "hard-9-11" -> hardTotalIn(actionableHand, {9, 10, 11})
                [] rules.doubleOn = "hard-10-11" -> hardTotalIn(actionableHand, {10, 11})
           /\ (rules.doubleAfterSplit \/ game.actionableHandIndex = 0))

\* A two-card hard 10 on a later split hand, refused only for doubleAfterSplit.
C8_Witness ==
  /\ game.state = "player-turn"
  /\ game.actionableHandIndex > 0
  /\ Len(actionableHand) = 2
  /\ rules.doubleOn = "hard-9-11"
  /\ hardTotalIn(actionableHand, {9, 10, 11})
  /\ ~rules.doubleAfterSplit
  /\ "double" \notin allowedNow

\* C9: in player-turn basicStrategy returns an allowed action, reading a cell
\* that exists; a D cell gives Hit and a D/S cell gives Stand when Double is not
\* allowed, and Split is returned only when it is allowed.
C9_StrategyIsLegal ==
  game.state = "player-turn" =>
    \A action \in {basicStrategy(game)}, code \in {playerActionCode(game)},
       allowed \in {allowedNow} :
      /\ action.threw = "none"
      /\ action.value \in allowed
      /\ (code.value = "D" /\ "double" \notin allowed => action.value = "hit")
      /\ (code.value = "D/S" /\ "double" \notin allowed => action.value = "stand")
      /\ (action.value = "split" => "split" \in allowed)

\* A D/S cell is read for a hand that cannot be doubled.
C9_Witness ==
  /\ game.state = "player-turn"
  /\ playerActionCode(game).value = "D/S"
  /\ "double" \notin allowedNow
  /\ basicStrategy(game).value = "stand"

\* C10: the number of player hands is between 1 and rules.maxHandsAfterSplit.
C10_HandCountInRange ==
  Len(game.playerHands) \in 1..rules.maxHandsAfterSplit

\* Splits were made up to the limit, above two hands.
C10_Witness ==
  /\ Len(game.playerHands) = rules.maxHandsAfterSplit
  /\ rules.maxHandsAfterSplit >= 3

\* C11: in a round driven by legal actions the number of Split actions applied
\* to a pair of aces never exceeds rules.splitAces, and the oracle's count
\* (adjacent hands that both start with an ace) is the number of ace splits
\* made so far.
C11_AceSplitCount ==
  /\ history.aceSplits <= rules.splitAces
  /\ numAcesSplit(game.playerHands) = history.aceSplits

\* Aces were split and resplit up to the limit.
C11_Witness ==
  /\ history.aceSplits >= 2
  /\ history.aceSplits = rules.splitAces
  /\ numAcesSplit(game.playerHands) = history.aceSplits

faceUp(hand) == \A i \in 1..Len(hand) : ~hand[i].faceDown

\* C13: for every two-card hand of face-up cards handValue returns blackjack for
\* an ace with a jack, queen or king in either order, and for an ace with a ten
\* in either order exactly when rules.aceAndTenCountsAsBlackjack is set; the
\* value of the hand does not depend on the order of its two cards.
C13_NaturalOrderIndependent ==
  (history.value # notValued /\ Len(game.hand) = 2 /\ faceUp(game.hand)) =>
    LET a == game.hand[1]
        b == game.hand[2]
        faces == {a.faceValue, b.faceValue}
    IN /\ handValue(<<b, a>>) = history.value
       /\ (faces \in {{"A", "J"}, {"A", "Q"}, {"A", "K"}} => history.value = Blackjack)
       /\ (faces = {"A", "10"} =>
             (history.value = Blackjack <=> rules.aceAndTenCountsAsBlackjack))
       /\ (history.value = Blackjack =>
             faces \in {{"A", "10"}, {"A", "J"}, {"A", "Q"}, {"A", "K"}})

\* A ten-valued card followed by an ace was valued as a natural.
C13_Witness ==
  /\ Len(game.hand) = 2
  /\ faceUp(game.hand)
  /\ game.hand[1].faceValue = "Q"
  /\ game.hand[2].faceValue = "A"
  /\ history.value = Blackjack

\* The soft rule as C14 words it, for the face-up cards of a hand.
softRule(hand) ==
  LET low == sumValues(hand)
      hasAce == \E i \in 1..Len(hand) : hand[i].faceValue = "A"
  IN IF hasAce /\ low <= 11
       THEN IF low + 10 > 21 THEN Number(low)
            ELSE IF low + 10 = 21 THEN Number(21)
            ELSE Soft(low, low + 10)
     ELSE Number(low)

\* C14 as stated: for all hands handValue follows the soft rule: a hand with an
\* ace and a low total of at most 11 is soft with high = low + 10, plain 21
\* when high is 21, and every other hand has the plain value low.
C14_SoftRuleAllHands ==
  history.value # notValued => history.value = softRule(filterFaceUp(game.hand))

isNatural(hand) ==
  /\ Len(hand) = 2
  /\ \/ {hand[1].faceValue, hand[2].faceValue} \in {{"A", "J"}, {"A", "Q"}, {"A", "K"}}
     \/ {hand[1].faceValue, hand[2].faceValue} = {"A", "10"} /\ rules.aceAndTenCountsAsBlackjack

\* C14 as amended: for all hands that are not a natural handValue follows the
\* soft rule; a soft value has high = low + 10 and high at most 20.
C14_SoftRuleExceptNaturals ==
  history.value # notValued =>
    /\ (~isNatural(filterFaceUp(game.hand)) =>
          history.value = softRule(filterFaceUp(game.hand)))
    /\ (history.value.kind = "soft" =>
          history.value.high = history.value.low + 10 /\ history.value.high <= 20)

\* A three-card hand with an ace and a low total of 11 was valued plain 21.
C14_Witness ==
  /\ Len(game.hand) = 3
  /\ faceUp(game.hand)
  /\ \E i \in 1..3 : game.hand[i].faceValue = "A"
  /\ sumValues(game.hand) = 11
  /\ history.value = Number(21)

RECURSIVE cardsIn(_)
cardsIn(hands) == IF hands = <<>> THEN 0 ELSE Len(Head(hands)) + cardsIn(Tail(hands))

cardsDealt(g) == cardsIn(g.playerHands) + Len(g.dealerHand)

\* hand' is hand with the given card added at its end, face up or face down.
gained(hand, newHand, card) ==
  /\ Len(newHand) = Len(hand) + 1
  /\ SubSeq(newHand, 1, Len(hand)) = hand
  /\ newHand[Len(newHand)].faceValue = card.faceValue

\* C16: the shoe is consumed from the front and never regrows: every transition
\* leaves the shoe as it is and deals no card, or removes its first card, which
\* is the card added to one player hand or to the dealer hand.
C16_ShoeConsumedFromFront ==
  [][\/ /\ game'.shoe = game.shoe
        /\ cardsDealt(game') = cardsDealt(game)
     \/ /\ game.shoe # <<>>
        /\ game'.shoe = Tail(game.shoe)
        /\ cardsDealt(game') = cardsDealt(game) + 1
        /\ \/ /\ game'.playerHands = game.playerHands
              /\ gained(game.dealerHand, game'.dealerHand, Head(game.shoe))
           \/ /\ game'.dealerHand = game.dealerHand
              /\ Len(game'.playerHands) = Len(game.playerHands)
              /\ \E i \in 1..Len(game.playerHands) :
                   /\ gained(game.playerHands[i], game'.playerHands[i], Head(game.shoe))
                   /\ \A j \in 1..Len(game.playerHands) :
                        j # i => game'.playerHands[j] = game.playerHands[j]]_vars

\* Cards were drawn for the opening deal, for a split hand and for the dealer.
C16_Witness ==
  /\ Len(game.shoe) = ShoeLen - 6
  /\ cardsDealt(game) = 6
  /\ Len(game.playerHands) = 2
  /\ Len(game.dealerHand) = 3

\* C17: initState(b) returns phase dealing, one player hand, which is empty, an
\* empty dealer hand, actionableHandIndex 0, startingBet b, bets <<b>> and a
\* shoe of 416 cards that holds each of the 52 (suit, rank) pairs 8 times, none
\* of them face down.
C17_InitState ==
  game # notStarted =>
    /\ game.state = "dealing"
    /\ game.playerHands = <<(<<>>)>>
    /\ game.dealerHand = <<>>
    /\ game.actionableHandIndex = 0
    /\ game.startingBet = history.startingBet
    /\ game.bets = <<history.startingBet>>
    /\ Len(game.shoe) = 416
    /\ \A s \in {"hearts", "diamonds", "clubs", "spades"}, f \in FaceValue :
         Cardinality({i \in 1..Len(game.shoe) :
                        game.shoe[i].suit = s /\ game.shoe[i].faceValue = f}) = 8
    /\ \A i \in 1..Len(game.shoe) : ~game.shoe[i].faceDown

\* initState returned a shoe in another order than the unshuffled one.
C17_Witness ==
  /\ game # notStarted
  /\ game.startingBet = 100
  /\ game.shoe # unshuffledShoe
  /\ game.shoe[1] = [suit |-> "spades", faceValue |-> "K", faceDown |-> FALSE]

\* C18: the phase moves only along dealing -> dealing, dealing -> player-turn,
\* player-turn -> player-turn, player-turn -> dealing (only by a Split, which
\* adds a hand), dealing or player-turn -> dealer-turn, dealer-turn ->
\* dealer-turn and any phase but game-over -> game-over; from dealer-turn on the
\* phase never returns to dealing or player-turn and no player hand or bet
\* changes.
C18_PhaseOrder ==
  [][/\ game.state # "game-over"
     /\ game.state = "dealing" =>
          game'.state \in {"dealing", "player-turn", "dealer-turn", "game-over"}
     /\ game.state = "player-turn" =>
          /\ game'.state \in {"player-turn", "dealing", "dealer-turn", "game-over"}
          /\ game'.state = "dealing" =>
               Len(game'.playerHands) = Len(game.playerHands) + 1
     /\ game.state = "dealer-turn" =>
          /\ game'.state \in {"dealer-turn", "game-over"}
          /\ game'.playerHands = game.playerHands
          /\ game'.bets = game.bets]_vars

\* After a split the dealer has revealed the hole card and is still to draw.
C18_Witness ==
  /\ game.state = "dealer-turn"
  /\ Len(game.playerHands) >= 2
  /\ Len(game.dealerHand) = 2
  /\ faceUp(game.dealerHand)

\* The credit C19 states for one hand.
creditOf(bet, outcome) ==
  CASE outcome.result = "player-win" /\ outcome.reason # "blackjack" -> 2 * bet
    [] outcome.result = "player-win" /\ outcome.reason = "blackjack" ->
         bet + times(rules.blackjackPayout, bet)
    [] outcome.result = "push" -> bet
    [] OTHER -> 0

\* C19: at game-over the driver credits, per hand with bet b, 2*b for a win
\* without blackjack, b*(1 + rules.blackjackPayout) for a blackjack win, b for a
\* push and 0 for a loss; printGameResult and monteCarloSimulation compute the
\* same earnings.
C19_PayoutsAgree ==
  game.state = "game-over" =>
    LET outcomes == determinePlayerHandOutcomes(game).value
        n == zipLen(game.bets, outcomes)
        credit == [i \in 1..n |-> creditOf(game.bets[i], outcomes[i])]
    IN /\ printGameResult(game) = sumUpTo(credit, n)
       /\ monteCarloSimulation(game) = sumUpTo(credit, n)

\* C20: whenever play moves on to a split hand that holds one card (after a
\* Hit or Double that finishes the current hand, after a Stand, and after a
\* mid-split deal that finishes the current hand) the resulting phase is
\* dealing, with actionableHandIndex on the waiting hand.
C20_WaitingHandIsDealt ==
  [][(/\ Len(game'.playerHands) = Len(game.playerHands)
      /\ game'.actionableHandIndex # game.actionableHandIndex
      /\ Len(game'.playerHands[game'.actionableHandIndex + 1]) = 1)
       => game'.state = "dealing"]_vars

\* C21: Split on the actionable two-card hand [c1, c2] at index i puts the
\* one-card hands [c1] and [c2] at positions i and i+1, keeps every other
\* player hand, in the same order, keeps the shoe, the dealer hand, startingBet
\* and actionableHandIndex, and sets the phase to dealing.
C21_SplitEffect ==
  [][SplitStep =>
       LET i == game.actionableHandIndex + 1
           hand == game.playerHands[i]
       IN /\ Len(hand) = 2
          /\ Len(game'.playerHands) = Len(game.playerHands) + 1
          /\ game'.playerHands[i] = <<hand[1]>>
          /\ game'.playerHands[i + 1] = <<hand[2]>>
          /\ \A j \in 1..Len(game.playerHands) :
               /\ j < i => game'.playerHands[j] = game.playerHands[j]
               /\ j > i => game'.playerHands[j + 1] = game.playerHands[j]
          /\ game'.shoe = game.shoe
          /\ game'.dealerHand = game.dealerHand
          /\ game'.startingBet = game.startingBet
          /\ game'.actionableHandIndex = game.actionableHandIndex
          /\ game'.state = "dealing"]_vars

\* The first of two hands was split again, into a ten and a king; the third
\* hand kept its place behind them.
C21_Witness ==
  /\ game.state = "dealing"
  /\ Len(game.playerHands) = 3
  /\ game.actionableHandIndex = 0
  /\ game.playerHands[1] = <<[faceValue |-> "10", faceDown |-> FALSE]>>
  /\ game.playerHands[2] = <<[faceValue |-> "K", faceDown |-> FALSE]>>
  /\ Len(game.playerHands[3]) = 1

\* list without its k-th entry
removeAt(list, k) == SubSeq(list, 1, k - 1) \o SubSeq(list, k + 1, Len(list))

sumOfBets(g) == sumUpTo(g.bets, Len(g.bets))

\* C22: every bet entry is startingBet or 2*startingBet; Split adds exactly one
\* entry, equal to startingBet, and changes no other entry; Double adds
\* startingBet to the entry of the acting hand and changes no other entry; no
\* other transition changes bets.  The sum of bets therefore grows by
\* startingBet with every Split and every Double, from startingBet at the start.
C22_BetsFollowSplitsAndDoubles ==
  [][/\ \A k \in 1..Len(game'.bets) :
          game'.bets[k] \in {game.startingBet, 2 * game.startingBet}
     /\ SplitStep =>
          /\ Len(game'.bets) = Len(game.bets) + 1
          /\ \E k \in 1..Len(game'.bets) :
               game'.bets[k] = game.startingBet /\ removeAt(game'.bets, k) = game.bets
          /\ sumOfBets(game') = sumOfBets(game) + game.startingBet
     /\ DoubleStep =>
          /\ game'.bets = [game.bets EXCEPT ![game.actionableHandIndex + 1] =
                                              @ + game.startingBet]
          /\ sumOfBets(game') = sumOfBets(game) + game.startingBet
     /\ ~(SplitStep \/ DoubleStep) => game'.bets = game.bets]_vars

\* The 1-based positions behind the actionable hand of split hands that still
\* wait for their second card.
waitingHands(g) ==
  {j \in 1..Len(g.playerHands) : j > g.actionableHandIndex + 1 /\ Len(g.playerHands[j]) = 1}

\* Play has moved from g to the first waiting split hand of g.
movedToWaitingHand(g, h) ==
  /\ h.state \in {"player-turn", "dealing"}
  /\ h.actionableHandIndex + 1 \in waitingHands(g)
  /\ \A j \in waitingHands(g) : h.actionableHandIndex + 1 <= j

\* C23: Double deals exactly one card, the first of the shoe, to the actionable
\* hand and adds startingBet to the bet entry of that hand; the phase is then
\* game-over if every player hand is bust, otherwise play moves to the next
\* waiting split hand if there is one, otherwise the phase is dealer-turn.  The
\* doubled hand gets no further card or action: play is never again on it in
\* player-turn, actionableHandIndex never decreases, no transition changes a
\* hand in front of actionableHandIndex, and from dealer-turn on no player hand
\* changes.
C23_DoubleEffect ==
  [][/\ DoubleStep =>
          LET i == game.actionableHandIndex + 1
          IN /\ game.shoe # <<>>
             /\ game'.shoe = Tail(game.shoe)
             /\ game'.playerHands =
                  [game.playerHands EXCEPT ![i] = Append(@, Head(game.shoe))]
             /\ game'.dealerHand = game.dealerHand
             /\ game'.bets[i] = game.bets[i] + game.startingBet
             /\ IF everyBust(game'.playerHands) THEN game'.state = "game-over"
                ELSE IF waitingHands(game) # {} THEN movedToWaitingHand(game, game')
                ELSE game'.state = "dealer-turn"
             /\ game'.state \in {"player-turn", "dealing"} =>
                  game'.actionableHandIndex > game.actionableHandIndex
     /\ game'.actionableHandIndex >= game.actionableHandIndex
     /\ \A j \in 1..game.actionableHandIndex : game'.playerHands[j] = game.playerHands[j]
     /\ game.state \in {"dealer-turn", "game-over"} => game'.playerHands = game.playerHands]_vars

\* The first split hand was doubled and play is on the second, which still
\* holds one card.
C23_Witness ==
  /\ game.state = "player-turn"
  /\ Len(game.playerHands) = 2
  /\ game.actionableHandIndex = 1
  /\ Len(game.playerHands[1]) = 3
  /\ game.bets[1] = 2 * game.startingBet
  /\ Len(game.playerHands[2]) = 1

\* A hand is finished, in the words of C24: bust, 21 or a natural.
bustOr21OrNatural(hand) ==
  LET value == handValue(hand)
  IN \/ value.kind = "blackjack"
     \/ value.kind = "number" /\ value.low >= 21

\* C24: Hit deals exactly one card, the first of the shoe, to the actionable
\* hand.  If the hand is then not bust, not 21 and not a natural, the phase stays
\* player-turn with the same actionableHandIndex; if it is and no split hand
\* waits, the phase is game-over when every player hand is bust and dealer-turn
\* otherwise.  A single hand that busts on a Hit ends the round in game-over
\* with the dealer hand as it was, and its outcome is player-loss, player-bust.
C24_HitEffect ==
  [][HitStep =>
       LET i == game.actionableHandIndex + 1
           newHand == Append(game.playerHands[i], Head(game.shoe))
       IN /\ game.shoe # <<>>
          /\ game'.shoe = Tail(game.shoe)
          /\ game'.playerHands = [game.playerHands EXCEPT ![i] = newHand]
          /\ game'.dealerHand = game.dealerHand
          /\ game'.bets = game.bets
          /\ ~bustOr21OrNatural(newHand) =>
               /\ game'.state = "player-turn"
               /\ game'.actionableHandIndex = game.actionableHandIndex
          /\ bustOr21OrNatural(newHand) /\ waitingHands(game) = {} =>
               game'.state = IF everyBust(game'.playerHands) THEN "game-over"
                             ELSE "dealer-turn"
          /\ Len(game.playerHands) = 1 /\ bust(newHand) =>
               /\ game'.state = "game-over"
               /\ determinePlayerHandOutcomes(game').value =
                    <<Outcome("player-loss", "player-bust")>>]_vars

\* The single hand 10, 5 took a king and bust; the dealer's hole card is still
\* face down.
C24_Witness ==
  /\ game.state = "game-over"
  /\ Len(game.playerHands) = 1
  /\ Len(game.playerHands[1]) = 3
  /\ bust(game.playerHands[1])
  /\ Len(game.dealerHand) = 2
  /\ game.dealerHand[2].faceDown
  /\ determinePlayerHandOutcomes(game).value = <<Outcome("player-loss", "player-bust")>>

\* One transition of the opening deal from g to h.  The n-th card of the shoe
\* goes to the player (n = 1, 3) or to the dealer (n = 2, 4); the phase stays
\* dealing for the first three; the dealer's second card is face down, or face
\* up when revealed is set.
openingDeal(g, h, revealed) ==
  LET n == cardsDealt(g)
      card == Head(g.shoe)
  IN /\ n \in 0..3
     /\ g.shoe # <<>>
     /\ h.shoe = Tail(g.shoe)
     /\ n = 0 => h.playerHands = <<(<<card>>)>> /\ h.dealerHand = <<>>
     /\ n = 1 => h.playerHands = g.playerHands /\ h.dealerHand = <<card>>
     /\ n = 2 => /\ h.playerHands = <<Append(g.playerHands[1], card)>>
                 /\ Len(h.playerHands[1]) = 2
                 /\ h.dealerHand = g.dealerHand
     /\ n = 3 => /\ h.playerHands = g.playerHands
                 /\ h.dealerHand =
                      <<g.dealerHand[1], [card EXCEPT !.faceDown = ~revealed]>>
     /\ n < 3 => h.state = "dealing"
     /\ n = 3 => h.state # "dealing"

\* No player action is requested before player and dealer hold two cards.
actionOnlyAfterOpening(g) ==
  g.state = "player-turn" => Len(g.dealerHand) = 2 /\ cardsIn(g.playerHands) >= 2

\* The dealer peeks and the two opening cards of the dealer, the second of
\* them still at the front of the shoe, are a natural.
peekFindsNatural(g) ==
  /\ rules.dealerPeeks
  /\ Len(g.dealerHand) = 1
  /\ g.shoe # <<>>
  /\ isNatural(<<g.dealerHand[1], Head(g.shoe)>>)

\* C25 as stated: the opening deal takes four dealing transitions that hand the
\* first four shoe cards to player, dealer, player, dealer; the dealer's second
\* card is face down after the fourth; the phase stays dealing during the
\* first three; no player action is requested before both hold two cards.
C25_OpeningDealHoleCardDown ==
  [][/\ (game.state = "dealing" /\ Len(game.playerHands) = 1) =>
          openingDeal(game, game', FALSE)
     /\ actionOnlyAfterOpening(game')]_vars

\* C25 as amended: the same, but the dealer's second card is face up after the
\* fourth transition when the dealer peeks and holds a natural, and face down
\* in every other round.
C25_OpeningDeal ==
  [][/\ (game.state = "dealing" /\ Len(game.playerHands) = 1) =>
          openingDeal(game, game', cardsDealt(game) = 3 /\ peekFindsNatural(game))
     /\ actionOnlyAfterOpening(game')]_vars

\* The opening deal is complete: 10, 5 to the player, K and a face-down 5 to
\* the dealer, and the player is asked to act.
C25_Witness ==
  /\ game.state = "player-turn"
  /\ Len(game.shoe) = ShoeLen - 4
  /\ game.playerHands = <<(<<[faceValue |-> "10", faceDown |-> FALSE],
                             [faceValue |-> "5", faceDown |-> FALSE]>>)>>
  /\ game.dealerHand = <<[faceValue |-> "K", faceDown |-> FALSE],
                         [faceValue |-> "5", faceDown |-> TRUE]>>

\* The next transition deals the dealer's second card.
fourthCardNext(g) ==
  g.state = "dealing" /\ Len(g.playerHands) = 1 /\ cardsDealt(g) = 3

\* C26: when rules.dealerPeeks is set and the dealer's two opening cards are a
\* natural, the transition that deals the dealer's second card goes to
\* game-over with both dealer cards face up, whatever the player holds, and the
\* player gets no turn: the phase was dealing until then and nothing follows
\* game-over.  When rules.dealerPeeks is not set, that transition never goes to
\* game-over and leaves the dealer's second card face down.
C26_DealerPeek ==
  [][/\ game.state # "game-over"
     /\ fourthCardNext(game) =>
          /\ Len(game'.dealerHand) = 2
          /\ peekFindsNatural(game) =>
               game'.state = "game-over" /\ faceUp(game'.dealerHand)
          /\ ~rules.dealerPeeks =>
               game'.state # "game-over" /\ game'.dealerHand[2].faceDown]_vars

\* The peeking dealer found a natural against the player's natural: the round
\* is over after four cards, with the dealer's cards face up.
C26_Witness ==
  /\ rules.dealerPeeks
  /\ game.state = "game-over"
  /\ Len(game.shoe) = ShoeLen - 4
  /\ isNatural(game.playerHands[1])
  /\ isNatural(game.dealerHand)
  /\ faceUp(game.dealerHand)

\* C27: when the player's two opening cards are a natural or total 21 and the
\* dealer peek does not end the round, the transition that completes the
\* opening deal goes from dealing to dealer-turn.  Player-turn is never entered
\* in that round: the phase was dealing until then, and from dealer-turn the
\* phase only stays or goes to game-over, where the round ends.
C27_PlayerTwentyOneSkipsTurn ==
  [][/\ game.state # "game-over"
     /\ (fourthCardNext(game) /\ bustOr21OrNatural(game.playerHands[1])
           /\ ~peekFindsNatural(game)) => game'.state = "dealer-turn"
     /\ game.state = "dealer-turn" => game'.state \in {"dealer-turn", "game-over"}]_vars

\* Ace and ten total 21 without being a natural under these rules; the round
\* is in dealer-turn right after the opening deal.
C27_Witness ==
  /\ ~rules.aceAndTenCountsAsBlackjack
  /\ game.state = "dealer-turn"
  /\ Len(game.shoe) = ShoeLen - 4
  /\ game.playerHands = <<(<<[faceValue |-> "A", faceDown |-> FALSE],
                             [faceValue |-> "10", faceDown |-> FALSE]>>)>>
  /\ handValue(game.playerHands[1]) = Number(21)
  /\ game.dealerHand[2].faceDown

\* The stand condition in the words of C28, on the value of the dealer's
\* face-up cards.
standsOn(value) ==
  \/ value.kind = "blackjack"
  \/ value.kind = "number" /\ value.low >= 17
  \/ value.kind = "soft" /\ value.high >= 17 /\ rules.dealerStandsOnAll17

\* The dealer has revealed the hole card (no card drawn) or drawn the first
\* card of the shoe.
revealedOrDrew(g, h) ==
  \/ /\ Len(g.dealerHand) = 2 /\ g.dealerHand[2].faceDown
     /\ h.dealerHand = allFaceUp(g.dealerHand)
     /\ h.shoe = g.shoe
  \/ /\ faceUp(g.dealerHand) /\ g.shoe # <<>>
     /\ h.dealerHand = Append(g.dealerHand, Head(g.shoe))
     /\ h.shoe = Tail(g.shoe)

\* C28: in dealer-turn the dealer stands (the phase becomes game-over, dealer
\* hand and shoe unchanged) exactly when the value of the dealer's visible hand
\* is a natural, a plain total of 17 or more, or a soft total with high side 17
\* or more while rules.dealerStandsOnAll17 is set; otherwise the dealer reveals
\* or draws.  So a soft 17 stands with dealerStandsOnAll17 and hits without it,
\* and no card is drawn to a plain total of 17 or more.  The same condition
\* decides at the end of a reveal or draw: the phase is then game-over when the
\* new dealer hand meets it, and stays dealer-turn only when it does not; the
\* one other way to game-over is that every player hand is a natural.
C28_DealerStandRule ==
  [][game.state = "dealer-turn" =>
       IF standsOn(handValue(game.dealerHand))
         THEN /\ game'.state = "game-over"
              /\ game'.dealerHand = game.dealerHand
              /\ game'.shoe = game.shoe
       ELSE /\ revealedOrDrew(game, game')
            /\ standsOn(handValue(game'.dealerHand)) => game'.state = "game-over"
            /\ game'.state = "game-over" =>
                 \/ standsOn(handValue(game'.dealerHand))
                 \/ \A i \in 1..Len(game.playerHands) : isNatural(game.playerHands[i])
            /\ game'.state \in {"dealer-turn", "game-over"}]_vars

\* The dealer drew to A, 5, A, a soft 17, and stood on it.
C28_Witness ==
  /\ rules.dealerStandsOnAll17
  /\ game.state = "game-over"
  /\ Len(game.dealerHand) = 3
  /\ handValue(game.dealerHand) = Soft(7, 17)
  /\ ~everyBlackjack(game.playerHands)
  /\ ~everyBust(game.playerHands)

\* C29: the dealer-turn transition of a round whose hole card is still face
\* down only reveals that card: the dealer hand keeps its two cards, the second
\* now face up, and the shoe is unchanged.  Every later dealer-turn transition
\* takes the first card of the shoe and appends it to the dealer hand.  No
\* dealer-turn transition touches a player hand.
C29_RevealThenDraw ==
  [][game.state = "dealer-turn" =>
       /\ Len(game.dealerHand) >= 2
       /\ game'.playerHands = game.playerHands
       /\ IF game.dealerHand[2].faceDown
            THEN /\ Len(game.dealerHand) = 2
                 /\ game'.dealerHand =
                      <<game.dealerHand[1], [game.dealerHand[2] EXCEPT !.faceDown = FALSE]>>
                 /\ game'.shoe = game.shoe
          ELSE /\ faceUp(game.dealerHand)
               /\ game.shoe # <<>>
               /\ game'.dealerHand = Append(game.dealerHand, Head(game.shoe))
               /\ game'.shoe = Tail(game.shoe)]_vars

\* The dealer revealed the hole card and then drew twice, to the end of the
\* modelled shoe.
C29_Witness ==
  /\ Len(game.dealerHand) = 4
  /\ faceUp(game.dealerHand)
  /\ Len(game.shoe) = ShoeLen - 6
  /\ Len(game.playerHands) = 1

\* Every player hand that is not bust is a natural.
everySurvivorNatural(g) ==
  \A i \in 1..Len(g.playerHands) :
    bust(g.playerHands[i]) \/ handValue(g.playerHands[i]).kind = "blackjack"

\* C30: after each dealer reveal or draw, if every player hand that is not
\* bust is a natural, the phase becomes game-over at once, whatever the
\* dealer's total and whether or not other player hands are bust.
C30_DealerStopsAgainstNaturals ==
  [][(/\ game.state = "dealer-turn"
      /\ revealedOrDrew(game, game')
      /\ everySurvivorNatural(game)) => game'.state = "game-over"]_vars

\* The hand with its face-down cards taken out.
withoutFaceDown(hand) == SelectSeq(hand, LAMBDA card : ~card.faceDown)

\* C31: a face-down card is invisible to valuation: its cardValue is 0 with the
\* ace counted either way, and handValue of a hand is handValue of the hand with
\* its face-down cards removed; so an ace with a face-down ten-valued card is
\* not valued blackjack.
C31_FaceDownInvisible ==
  history.value # notValued =>
    /\ \A i \in 1..Len(game.hand) :
         game.hand[i].faceDown =>
           cardValue(game.hand[i], FALSE) = 0 /\ cardValue(game.hand[i], TRUE) = 0
    /\ history.value = handValue(withoutFaceDown(game.hand))
    /\ (/\ Len(game.hand) = 2
        /\ game.hand[1].faceValue = "A"
        /\ game.hand[2].faceDown) => history.value = Soft(1, 11)

\* An ace with a face-down king was valued as the ace alone.
C31_Witness ==
  /\ game.hand = <<[faceValue |-> "A", faceDown |-> FALSE],
                   [faceValue |-> "K", faceDown |-> TRUE]>>
  /\ history.value = Soft(1, 11)

\* C32: in every game-over state every player hand holds at least two cards:
\* no split hand is left, stood on or resolved with its single opening card.
C32_NoOneCardHandAtGameOver ==
  game.state = "game-over" =>
    \A i \in 1..Len(game.playerHands) : Len(game.playerHands[i]) >= 2

\* C33: in every player-turn state the actionable hand is not finished: it is
\* not bust, its value is not 21 and it is not a natural.  So every action is
\* requested on an unfinished hand, and Hit and Double add their card to one.
C33_ActionableHandUnfinished ==
  game.state = "player-turn" =>
    /\ game.actionableHandIndex + 1 \in 1..Len(game.playerHands)
    /\ ~bust(actionableHand)
    /\ handValue(actionableHand) # Number(21)
    /\ ~isNatural(actionableHand)
    /\ handValue(actionableHand).kind # "blackjack"

\* Play has moved past a split hand that finished on a natural and is on the
\* next hand, which is not finished.
C33_Witness ==
  /\ game.state = "player-turn"
  /\ game.actionableHandIndex = 1
  /\ handValue(game.playerHands[1]).kind = "blackjack"
  /\ Len(actionableHand) = 2

\* All cards of the table in one sequence: player hands, dealer hand, shoe.
RECURSIVE flatten(_)
flatten(hands) == IF hands = <<>> THEN <<>> ELSE Head(hands) \o flatten(Tail(hands))

allCards(g) == flatten(g.playerHands) \o g.dealerHand \o g.shoe

\* Number of cards of face value f among cards, face up or face down.
countOf(f, cards) == Cardinality({i \in 1..Len(cards) : cards[i].faceValue = f})

\* C34: cards are conserved.  Every transition keeps, for every face value,
\* the number of cards of that value in player hands, dealer hand and shoe
\* together, the faceDown flag ignored; the round starts with all its cards in
\* the shoe, so the cards of every reachable state are a permutation of the
\* initial shoe.
C34_CardsConserved ==
  [][\A before \in {allCards(game)}, after \in {allCards(game')} :
       /\ Len(after) = Len(before)
       /\ \A f \in FaceValue \cup {undefinedCard.faceValue} :
            countOf(f, after) = countOf(f, before)]_vars

\* A round with a split and a revealed hole card has ended without a dealer
\* draw; all cards of the initial shoe are still on the table.
C34_Witness ==
  /\ game.state = "game-over"
  /\ Len(game.playerHands) = 2
  /\ Len(game.dealerHand) = 2
  /\ faceUp(game.dealerHand)
  /\ Len(allCards(game)) = ShoeLen

\* C35: from every state whose phase is not game-over and whose shoe is not
\* empty, nextState returns a successor state, for every allowed action in
\* player-turn and without an action otherwise: it raises no error, the
\* dealer holds a second card whenever dealer-turn looks at the hole card, and
\* no hand holds a card that was read past the end of an array.
C35_NextStateReturns ==
  /\ (game.state # "game-over" /\ game.shoe # <<>>) =>
       /\ game.state = "player-turn" =>
            /\ determineAllowedActions(game).threw = "none"
            /\ \A a \in allowedNow : nextState(game, a).threw = "none"
       /\ game.state # "player-turn" => nextState(game, "undefined").threw = "none"
       /\ game.state = "dealer-turn" => Len(game.dealerHand) >= 2
  /\ \A cards \in {allCards(game)} :
       \A i \in 1..Len(cards) : cards[i].faceValue \in FaceValue

\* The dealer has drawn a third card and is to draw again from a shoe that
\* still holds a card.
C35_Witness ==
  /\ game.state = "dealer-turn"
  /\ Len(game.dealerHand) = 3
  /\ game.shoe # <<>>
  /\ nextState(game, "undefined").threw = "none"
  /\ nextState(game, "undefined").value.dealerHand = Append(game.dealerHand, Head(game.shoe))

\* C36: when rules.doubleAfterSplit is not set, Double is not offered once the
\* round has a split: in every player-turn state with more than one player
\* hand determineAllowedActions does not contain Double, and in a round with a
\* split no bet entry exceeds startingBet.
C36_NoDoubleAfterSplit ==
  (~rules.doubleAfterSplit /\ Len(game.playerHands) > 1) =>
    /\ game.state = "player-turn" => "double" \notin allowedNow
    /\ \A k \in 1..Len(game.bets) : game.bets[k] <= game.startingBet

\* C37: in every game-over state the dealer holds a face-down card only if
\* every player hand is bust; when a player hand is not bust the dealer holds
\* two or more cards, all face up, so the outcome of a surviving hand is never
\* computed against a dealer value that leaves out the hole card.
C37_HoleCardRevealedForSurvivors ==
  game.state = "game-over" =>
    /\ ~faceUp(game.dealerHand) => everyBust(game.playerHands)
    /\ ~everyBust(game.playerHands) =>
         /\ Len(game.dealerHand) >= 2
         /\ handValue(game.dealerHand) = handValue(allFaceUp(game.dealerHand))

\* Two split hands stood below 21 and the dealer stood on the revealed hand.
C37_Witness ==
  /\ game.state = "game-over"
  /\ Len(game.playerHands) = 2
  /\ \A i \in 1..2 : ~bust(game.playerHands[i]) /\ Len(game.playerHands[i]) = 2
  /\ ~everyBlackjack(game.playerHands)
  /\ Len(game.dealerHand) = 2
  /\ faceUp(game.dealerHand)
  /\ dealerShouldStand(game.dealerHand)

\* actionableHandIndex is an index of playerHands, and with more than one hand
\* every hand behind it holds one card.
indexInRange(g) ==
  /\ g.actionableHandIndex \in 0..(Len(g.playerHands) - 1)
  /\ Len(g.playerHands) > 1 =>
       \A j \in 1..Len(g.playerHands) :
         j > g.actionableHandIndex + 1 => Len(g.playerHands[j]) = 1

\* C38: in every state 0 <= actionableHandIndex < playerHands.length and, when
\* there is more than one player hand, every hand at a greater index holds
\* exactly one card; actionableHandIndex never decreases along a run.
C38_ActionableHandIndex ==
  [][/\ indexInRange(game)
     /\ indexInRange(game')
     /\ game'.actionableHandIndex >= game.actionableHandIndex]_vars

\* Play is on the last of three hands, which still holds one card.
C38_Witness ==
  /\ game.state = "player-turn"
  /\ Len(game.playerHands) = 3
  /\ game.actionableHandIndex = 2
  /\ Len(actionableHand) = 1

\* C39: played hands are frozen: no transition changes the cards or the bet
\* entry of a hand at an index that actionableHandIndex has moved past, also
\* not a Split of a later hand.  (The index never decreases, so a hand that it
\* has passed stays in front of it.)
C39_PlayedHandsFrozen ==
  [][\A i \in 1..game.actionableHandIndex :
       /\ game'.playerHands[i] = game.playerHands[i]
       /\ game'.bets[i] = game.bets[i]]_vars

\* The state g with another hole card and another shoe: what the player
\* cannot see is replaced, everything else is kept.
withHidden(g, f, shoe) ==
  [g EXCEPT !.dealerHand[2].faceValue = f, !.shoe = shoe]

\* The shoe of g in the opposite order.
reversedShoe(g) ==
  [i \in 1..Len(g.shoe) |-> g.shoe[Len(g.shoe) + 1 - i]]

\* Two states that agree with g on all but the hidden cards and are the same
\* for every g with the same visible part: the hole card a two and no shoe
\* left, the hole card an ace and the shoe reversed.  Two states with the
\* same visible part that both decide as the first of these decide alike.
hiddenVariants(g) ==
  {withHidden(g, "2", <<>>), withHidden(g, "A", reversedShoe(g))}

\* C40: the player's decisions do not depend on hidden information: in every
\* player-turn state, determineAllowedActions and basicStrategy return what
\* they return in the state with the same playerHands, actionableHandIndex,
\* bets, startingBet and upcard whose hole card and shoe are fixed ones; so
\* any two states that agree on the visible part get the same results.
C40_DecisionsIgnoreHiddenCards ==
  (game.state = "player-turn" /\ Len(game.dealerHand) >= 2 /\ game.dealerHand[2].faceDown)
    => \A allowed \in {determineAllowedActions(game)}, action \in {basicStrategy(game)} :
         \A other \in hiddenVariants(game) :
           /\ determineAllowedActions(other) = allowed
           /\ basicStrategy(other) = action

C40_Witness ==
  /\ game.state = "player-turn"
  /\ game.dealerHand[1].faceValue = "5"
  /\ game.dealerHand[2] = [faceValue |-> "K", faceDown |-> TRUE]
  /\ handValue(actionableHand) = Number(15)
  /\ game.shoe # <<>>
  /\ basicStrategy(game) = Ok("stand")
  /\ basicStrategy(withHidden(game, "A", <<>>)) = Ok("stand")

====
